---- MODULE Spec2Model ----
(***************************************************************************)
(* State-graph execution runtime of the LearnLangGraph tutorials.          *)
(*                                                                         *)
(* The tutorials (src/NN_*.py) declare nodes, routing functions and graph  *)
(* wiring; these are translated from the Python source.  The runtime that  *)
(* executes them (superstep scheduler, channel store, checkpoint store) is *)
(* not part of the sources and is modelled from sections 3-5 of the        *)
(* specification.                                                          *)
(*                                                                         *)
(* A Python str is a sequence of tokens: the characters of an input string *)
(* are one-character tokens, a literal fragment of an f-string is one      *)
(* token.  None is the empty tuple and an optional value v is <<v>>.       *)
(***************************************************************************)
EXTENDS Integers, Sequences, FiniteSets, TLC

\* ------------------------------------------------------------------ bounds
MaxLen == 2
MaxNum == 3
MaxRetry == 2

\* ----------------------------------------------------------- Python values
\* the strings of at most n characters over the alphabet {a, B}
StrsUpTo(n) == UNION {[1..k -> {"a", "B"}] : k \in 0..n}

Inputs == StrsUpTo(MaxLen)

S(lit) == <<lit>>

Upper(s) ==
    [i \in 1..Len(s) |-> CASE s[i] = "a" -> "A" [] s[i] = "b" -> "B" [] OTHER -> s[i]]

Lower(s) ==
    [i \in 1..Len(s) |-> CASE s[i] = "A" -> "a" [] s[i] = "B" -> "b"
                            [] s[i] = "USER" -> "user" [] OTHER -> s[i]]

Reverse(s) == [i \in 1..Len(s) |-> s[Len(s) + 1 - i]]

RECURSIVE Decimal(_)
Decimal(n) ==
    LET digit == CASE n % 10 = 0 -> "0" [] n % 10 = 1 -> "1" [] n % 10 = 2 -> "2"
                   [] n % 10 = 3 -> "3" [] n % 10 = 4 -> "4" [] n % 10 = 5 -> "5"
                   [] n % 10 = 6 -> "6" [] n % 10 = 7 -> "7" [] n % 10 = 8 -> "8"
                   [] OTHER -> "9"
    IN IF n < 10 THEN <<digit>> ELSE Decimal(n \div 10) \o <<digit>>

\* str(n) of an int, as interpolated by an f-string
IntStr(n) == IF n < 0 THEN <<"-">> \o Decimal(0 - n) ELSE Decimal(n)

\* sep.join(xs) of a list of str
RECURSIVE Join(_, _)
Join(sep, xs) ==
    IF xs = << >> THEN << >>
    ELSE IF Len(xs) = 1 THEN xs[1]
    ELSE xs[1] \o sep \o Join(sep, Tail(xs))

None == << >>

Some(v) == <<v>>

\* truth value of an optional str: None and "" are falsy
TruthyOpt(o) == o # None /\ o[1] # << >>

END == "__end__"

\* the thread of a run invoked without thread_id
DefaultThread == "default"

\* dict.get(key, default)
Get(d, key, default) == IF key \in DOMAIN d THEN d[key] ELSE default

\* x in xs, for a list xs
InList(x, xs) == \E i \in 1..Len(xs) : xs[i] = x

\* a node call: the partial update it returns and the state dict as the
\* call leaves it (in-place list operations of the node included)
Call(state, ret) == [ret |-> ret, state |-> state]

\* ------------------------------------------------------ 01_hello_world.py
node_a_01(state) ==
    Call(state, [message |-> S("Node A says: ") \o state.message])

node_b_01(state) ==
    Call(state, [message |-> state.message \o S(" -> Node B processed it!")])

\* main: add_node, set_entry_point, add_edge
Graph_01 ==
    [nodes |-> {"node_a", "node_b"},
     entry |-> "node_a",
     edges |-> {<<"node_a", "node_b">>, <<"node_b", END>>},
     allow |-> << >>,
     threads |-> {DefaultThread},
     initial |->
        {[message |-> m] : m \in Inputs}]

\* ------------------------------------------------- 02_state_management.py
input_node_02(state) ==
    Call(state,
         [counter |-> state.counter,
          messages |-> Append(state.messages,
                              S("Input: Received '") \o state.user_input \o S("'")),
          user_input |-> state.user_input,
          processed |-> FALSE])

process_node_02(state) ==
    LET new_counter == state.counter + 1 IN
    Call(state,
         [counter |-> new_counter,
          messages |-> Append(state.messages,
                              S("Processed: '") \o Upper(state.user_input)
                                \o S("' (step ") \o IntStr(new_counter) \o S(")")),
          processed |-> FALSE])

output_node_02_WritesCounter(state) ==
    Call(state,
         [counter |-> state.counter + 1,
          messages |-> Append(state.messages,
                              S("Output: Completed in ") \o IntStr(state.counter)
                                \o S(" steps")),
          processed |-> TRUE])

output_node_02(state) ==
    Call(state,
         [messages |-> Append(state.messages,
                              S("Output: Completed in ") \o IntStr(state.counter)
                                \o S(" steps")),
          processed |-> TRUE])

Graph_02 ==
    [nodes |-> {"input", "process", "output"},
     entry |-> "input",
     edges |-> {<<"input", "process">>, <<"process", "output">>, <<"output", END>>},
     allow |-> << >>,
     threads |-> {DefaultThread},
     initial |->
        {[counter |-> 0, messages |-> << >>, user_input |-> u, processed |-> FALSE]
            : u \in Inputs}]

\* ------------------------------------------------ 03_conditional_edges.py
start_node_03(state) ==
    Call(state, [number |-> state.number, path |-> S("started"), processed |-> FALSE])

even_handler_03(state) ==
    Call(state, [number |-> state.number, path |-> S("even"), processed |-> TRUE])

odd_handler_03(state) ==
    Call(state, [number |-> state.number, path |-> S("odd"), processed |-> TRUE])

route_by_number_03_Swapped(state) ==
    IF state.number % 2 = 0 THEN {"odd_handler"} ELSE {"even_handler"}

route_by_number_03(state) ==
    IF state.number % 2 = 0 THEN {"even_handler"} ELSE {"odd_handler"}

Graph_03 ==
    [nodes |-> {"start", "even_handler", "odd_handler"},
     entry |-> "start",
     edges |-> {<<"even_handler", END>>, <<"odd_handler", END>>},
     allow |-> ("start" :> (("even_handler" :> "even_handler")
                                @@ ("odd_handler" :> "odd_handler"))),
     threads |-> {DefaultThread},
     initial |->
        {[number |-> k, path |-> << >>, processed |-> FALSE] : k \in (0 - MaxNum)..MaxNum}]

\* --------------------------------------------------- 04_multiple_paths.py
start_node_04(state) ==
    Call(state, [input_data |-> state.input_data])

path_a_processor_04(state) ==
    Call(state, [path_a_result |-> S("PATH_A: ") \o Upper(state.input_data)])

path_b_processor_04_WritesA(state) ==
    Call(state, [path_a_result |-> S("PATH_B: ") \o Lower(state.input_data)])

path_b_processor_04(state) ==
    Call(state, [path_b_result |-> S("PATH_B: ") \o Lower(state.input_data)])

path_c_processor_04(state) ==
    Call(state, [path_c_result |-> S("PATH_C: ") \o Reverse(state.input_data)])

collect_results_04(state) ==
    LET ra == IF state.path_a_result # << >> THEN <<state.path_a_result>> ELSE << >>
        rb == IF state.path_b_result # << >> THEN <<state.path_b_result>> ELSE << >>
        rc == IF state.path_c_result # << >> THEN <<state.path_c_result>> ELSE << >>
    IN Call(state, [all_results |-> ra \o rb \o rc, processing_complete |-> TRUE])

route_to_all_paths_04_TwoPaths(state) ==
    {"path_a_processor", "path_b_processor"}

route_to_all_paths_04(state) ==
    {"path_a_processor", "path_b_processor", "path_c_processor"}

Graph_04_SkipCollect ==
    [nodes |-> {"start", "path_a_processor", "path_b_processor",
                "path_c_processor", "collect"},
     entry |-> "start",
     edges |-> {<<"path_a_processor", END>>, <<"path_b_processor", END>>,
                <<"path_c_processor", END>>, <<"collect", END>>},
     allow |-> ("start" :> [k \in {"path_a_processor", "path_b_processor",
                                   "path_c_processor"} |-> k]),
     threads |-> {DefaultThread},
     initial |->
        {[input_data |-> d, path_a_result |-> << >>, path_b_result |-> << >>,
          path_c_result |-> << >>, all_results |-> << >>,
          processing_complete |-> FALSE] : d \in Inputs}]

Graph_04 ==
    [nodes |-> {"start", "path_a_processor", "path_b_processor",
                "path_c_processor", "collect"},
     entry |-> "start",
     edges |-> {<<"path_a_processor", "collect">>, <<"path_b_processor", "collect">>,
                <<"path_c_processor", "collect">>, <<"collect", END>>},
     allow |-> ("start" :> [k \in {"path_a_processor", "path_b_processor",
                                   "path_c_processor"} |-> k]),
     threads |-> {DefaultThread},
     initial |->
        {[input_data |-> d, path_a_result |-> << >>, path_b_result |-> << >>,
          path_c_result |-> << >>, all_results |-> << >>,
          processing_complete |-> FALSE] : d \in Inputs}]

\* ------------------------------------------------------ 05_human_input.py
\* revise_response counts iterations without limit; the model stops starting
\* nodes of 05 once the counter has reached MaxIterations_05
MaxIterations_05 == 4

process_query_05(state) ==
    Call(state,
         [user_query |-> state.user_query,
          ai_response |-> S("AI Response to: ") \o state.user_query,
          iterations |-> 1])

\* simulated_feedback is the constant "needs_revision"
get_human_feedback_05(state) ==
    LET simulated_feedback == S("needs_revision") IN
    Call(state,
         [human_feedback |-> simulated_feedback,
          approved |-> simulated_feedback = S("approved")])

revise_response_05(state) ==
    Call(state,
         [ai_response |-> S("Revised Response (iteration ")
                            \o IntStr(state.iterations + 1) \o S("): ")
                            \o state.user_query \o S(" [Incorporating: ")
                            \o state.human_feedback \o S("]"),
          iterations |-> state.iterations + 1])

route_after_feedback_05(state) ==
    IF state.approved THEN {END} ELSE {"revise_response"}

Graph_05 ==
    [nodes |-> {"process_query", "get_feedback", "revise_response"},
     entry |-> "process_query",
     edges |-> {<<"process_query", "get_feedback">>,
                <<"revise_response", "get_feedback">>},
     allow |-> "get_feedback" :> (("revise_response" :> "revise_response")
                                  @@ (END :> END)),
     threads |-> {"demo-thread-1"},
     initial |->
        {[user_query |-> q, ai_response |-> << >>, human_feedback |-> << >>,
          approved |-> FALSE, iterations |-> 0]
            : q \in {S("What is LangGraph?")} \cup StrsUpTo(1)}]

\* --------------------------------------------------- 06_error_handling.py
risky_operation_06_KeepsError(state) ==
    IF state.retry_count = 0
    THEN [raised |-> TRUE,
          msg |-> S("Simulated error processing: ") \o state.input_data]
    ELSE [raised |-> FALSE,
          ret |-> [result |-> S("Successfully processed: ") \o state.input_data,
                   success |-> TRUE]]

\* risky_operation either raises ValueError(msg) or returns a partial update
risky_operation_06(state) ==
    IF state.retry_count = 0
    THEN [raised |-> TRUE,
          msg |-> S("Simulated error processing: ") \o state.input_data]
    ELSE [raised |-> FALSE,
          ret |-> [result |-> S("Successfully processed: ") \o state.input_data,
                   success |-> TRUE,
                   error |-> None]]

error_handler_06_KeepsError(state) ==
    LET err == IF state.error = None THEN S("None") ELSE state.error[1] IN
    IF state.retry_count < state.max_retries
    THEN Call(state, [retry_count |-> state.retry_count + 1])
    ELSE Call(state,
              [error |-> Some(S("Failed after ") \o IntStr(state.max_retries)
                              \o S(" retries: ") \o err)])

error_handler_06(state) ==
    LET err == IF state.error = None THEN S("None") ELSE state.error[1] IN
    IF state.retry_count < state.max_retries
    THEN Call(state, [retry_count |-> state.retry_count + 1, error |-> None])
    ELSE Call(state,
              [error |-> Some(S("Failed after ") \o IntStr(state.max_retries)
                              \o S(" retries: ") \o err)])

fallback_handler_06(state) ==
    Call(state,
         [result |-> S("Fallback result for: ") \o state.input_data
                       \o S(" (Original operation failed)"),
          success |-> TRUE])

safe_operation_node_06(state) ==
    LET r == risky_operation_06(state) IN
    IF r.raised
    THEN Call(state, [error |-> Some(r.msg), retry_count |-> state.retry_count])
    ELSE Call(state, r.ret)

route_after_error_handling_06(state) ==
    IF TruthyOpt(state.error) /\ state.retry_count >= state.max_retries
    THEN {"fallback_handler"}
    ELSE IF TruthyOpt(state.error)
         THEN {"safe_operation_node"}
         ELSE {END}

route_after_safe_operation_06(state) ==
    IF TruthyOpt(state.error) THEN {"error_handler"} ELSE {END}

Graph_06 ==
    [nodes |-> {"safe_operation", "error_handler", "fallback_handler"},
     entry |-> "safe_operation",
     edges |-> {<<"fallback_handler", END>>},
     allow |-> ("safe_operation" :>
                  (("error_handler" :> "error_handler") @@ (END :> END)))
               @@ ("error_handler" :>
                  (("safe_operation" :> "safe_operation")
                     @@ ("fallback_handler" :> "fallback_handler") @@ (END :> END))),
     threads |-> {DefaultThread},
     initial |->
        {[input_data |-> d, result |-> << >>, error |-> e, retry_count |-> rc,
          max_retries |-> mr, success |-> FALSE]
            : d \in StrsUpTo(1), e \in {None, Some(S("boom"))},
              rc \in 0..MaxRetry, mr \in 0..(MaxRetry + 1)}]

\* ----------------------------------------------- 07_memory_persistence.py
step_one_07(state) ==
    LET processed_steps == Append(state.processed_steps, S("step_one")) IN
    Call([state EXCEPT !.processed_steps = processed_steps],
         [step_number |-> 1,
          data |-> state.data \o S(" -> Step1"),
          processed_steps |-> processed_steps])

step_two_07(state) ==
    LET processed_steps == Append(state.processed_steps, S("step_two")) IN
    Call([state EXCEPT !.processed_steps = processed_steps],
         [step_number |-> 2,
          data |-> state.data \o S(" -> Step2"),
          processed_steps |-> processed_steps])

step_three_07(state) ==
    LET processed_steps == Append(state.processed_steps, S("step_three")) IN
    Call([state EXCEPT !.processed_steps = processed_steps],
         [step_number |-> 3,
          data |-> state.data \o S(" -> Step3"),
          processed_steps |-> processed_steps,
          completed |-> TRUE])

Graph_07 ==
    [nodes |-> {"step_one", "step_two", "step_three"},
     entry |-> "step_one",
     edges |-> {<<"step_one", "step_two">>, <<"step_two", "step_three">>,
                <<"step_three", END>>},
     allow |-> << >>,
     threads |-> {"workflow-001"},
     initial |->
        {[step_number |-> 0, data |-> d, processed_steps |-> << >>,
          completed |-> FALSE] : d \in {S("Initial")} \cup StrsUpTo(1)}]

\* ------------------------------------------------------- 08_streaming.py
node_a_08(state) ==
    LET steps == Append(state.steps_completed, S("node_a")) IN
    Call([state EXCEPT !.steps_completed = steps],
         [processed_message |-> S("NodeA processed: ") \o Upper(state.input_message),
          steps_completed |-> steps])

node_b_08(state) ==
    LET steps == Append(state.steps_completed, S("node_b")) IN
    Call([state EXCEPT !.steps_completed = steps],
         [processed_message |-> state.processed_message \o S(" -> NodeB enhanced"),
          steps_completed |-> steps])

node_c_08(state) ==
    LET steps == Append(state.steps_completed, S("node_c")) IN
    Call([state EXCEPT !.steps_completed = steps],
         [final_result |-> state.processed_message \o S(" -> NodeC finalized"),
          steps_completed |-> steps])

Graph_08_SkipB ==
    [nodes |-> {"node_a", "node_b", "node_c"},
     entry |-> "node_a",
     edges |-> {<<"node_a", "node_c">>, <<"node_b", "node_c">>, <<"node_c", END>>},
     allow |-> << >>,
     threads |-> {DefaultThread},
     initial |->
        {[input_message |-> m, processed_message |-> << >>, steps_completed |-> << >>,
          final_result |-> << >>] : m \in Inputs}]

Graph_08 ==
    [nodes |-> {"node_a", "node_b", "node_c"},
     entry |-> "node_a",
     edges |-> {<<"node_a", "node_b">>, <<"node_b", "node_c">>, <<"node_c", END>>},
     allow |-> << >>,
     threads |-> {DefaultThread},
     initial |->
        {[input_message |-> m, processed_message |-> << >>, steps_completed |-> << >>,
          final_result |-> << >>] : m \in Inputs}]

\* ------------------------------------------------------- 09_subgraphs.py
preprocess_step1_09(state) ==
    Call(state,
         [value |-> state.value * 2,
          subgraph_result |-> S("Preprocessed (step 1): ") \o IntStr(state.value * 2)])

preprocess_step2_09(state) ==
    Call(state,
         [value |-> state.value + 10,
          subgraph_result |-> S("Preprocessed (step 2): ") \o IntStr(state.value + 10)])

\* the compiled subgraph; `initial` is the subgraph_state node_with_subgraph
\* invokes it with
create_preprocessing_subgraph_09_Step1Only ==
    [nodes |-> {"step1", "step2"},
     entry |-> "step1",
     edges |-> {<<"step1", END>>, <<"step2", END>>},
     allow |-> << >>,
     threads |-> {DefaultThread},
     initial |-> {[value |-> 5, subgraph_result |-> << >>]}]

create_preprocessing_subgraph_09 ==
    [nodes |-> {"step1", "step2"},
     entry |-> "step1",
     edges |-> {<<"step1", "step2">>, <<"step2", END>>},
     allow |-> << >>,
     threads |-> {DefaultThread},
     initial |-> {[value |-> 5, subgraph_result |-> << >>]}]

main_graph_node_09(state) ==
    Call(state, [processed_data |-> S("Main processed: ") \o state.input_data])

\* subgraph_result is what preprocessing_graph.invoke(subgraph_state) returned
node_with_subgraph_09(state, subgraph_result) ==
    LET subgraph_outputs ==
            Append(state.subgraph_outputs, subgraph_result.subgraph_result)
    IN Call([state EXCEPT !.subgraph_outputs = subgraph_outputs],
            [processed_data |-> state.processed_data \o S(" -> Used subgraph"),
             subgraph_outputs |-> subgraph_outputs])

final_node_09(state) ==
    LET all_outputs == Join(S(", "), state.subgraph_outputs) IN
    Call(state,
         [final_result |-> state.processed_data \o S(" | Subgraphs: [")
                             \o all_outputs \o S("]")])

Graph_09 ==
    [nodes |-> {"main_node", "subgraph_node", "final_node"},
     entry |-> "main_node",
     edges |-> {<<"main_node", "subgraph_node">>, <<"subgraph_node", "final_node">>,
                <<"final_node", END>>},
     allow |-> << >>,
     threads |-> {DefaultThread},
     initial |->
        {[input_data |-> d, processed_data |-> << >>, subgraph_outputs |-> << >>,
          final_result |-> << >>] : d \in Inputs}]

\* --------------------------------------------------- 11_agent_patterns.py
agent_think_11_CountsTwice(state) ==
    LET iteration_count == state.iteration_count
        thought == IF iteration_count = 0
                   THEN S("Initial thought: I need to answer the query '")
                          \o state.user_query
                          \o S("'. Let me search for information.")
                   ELSE IF iteration_count = 1
                   THEN S("Thought: I found some information. Let me process it and provide an answer.")
                   ELSE S("Thought: I have enough information. I should provide the final answer.")
        action == IF iteration_count = 0 THEN S("search_web") ELSE S("finalize")
        agent_thoughts == Append(state.agent_thoughts, thought)
    IN Call([state EXCEPT !.agent_thoughts = agent_thoughts],
            [agent_thoughts |-> agent_thoughts,
             agent_actions |-> Append(state.agent_actions, action),
             iteration_count |-> iteration_count + 2])

agent_think_11(state) ==
    LET iteration_count == state.iteration_count
        thought == IF iteration_count = 0
                   THEN S("Initial thought: I need to answer the query '")
                          \o state.user_query
                          \o S("'. Let me search for information.")
                   ELSE IF iteration_count = 1
                   THEN S("Thought: I found some information. Let me process it and provide an answer.")
                   ELSE S("Thought: I have enough information. I should provide the final answer.")
        action == IF iteration_count = 0 THEN S("search_web") ELSE S("finalize")
        agent_thoughts == Append(state.agent_thoughts, thought)
    IN Call([state EXCEPT !.agent_thoughts = agent_thoughts],
            [agent_thoughts |-> agent_thoughts,
             agent_actions |-> Append(state.agent_actions, action),
             iteration_count |-> iteration_count + 1])

agent_act_11(state) ==
    IF state.agent_actions = << >> THEN Call(state, state)
    ELSE LET last_action == state.agent_actions[Len(state.agent_actions)]
             search_web == S("Web search results for '") \o state.user_query
                             \o S("': Found relevant information about the topic.")
             tool_results ==
                 IF last_action = S("search_web")
                 THEN Append(state.tool_results, search_web)
                 ELSE IF last_action = S("finalize")
                 THEN Append(state.tool_results,
                             S("Finalizing answer based on collected information"))
                 ELSE state.tool_results
         IN Call([state EXCEPT !.tool_results = tool_results],
                 [tool_results |-> tool_results])

agent_respond_11(state) ==
    Call(state,
         [final_answer |->
            S("Based on my analysis:\n") \o S("Query: ") \o state.user_query \o S("\n")
              \o S("Thoughts: ") \o Join(S("; "), state.agent_thoughts) \o S("\n")
              \o S("Findings: ") \o Join(S("; "), state.tool_results) \o S("\n")
              \o S("Final Answer: I've gathered the necessary information to address your query.")])

should_continue_11_UnknownKey(state) ==
    IF state.iteration_count >= state.max_iterations THEN {"end"}
    ELSE IF state.agent_actions # << >>
            /\ state.agent_actions[Len(state.agent_actions)] = S("finalize")
    THEN {"end"}
    ELSE {"think"}

should_continue_11(state) ==
    IF state.iteration_count >= state.max_iterations THEN {"respond"}
    ELSE IF state.agent_actions # << >>
            /\ state.agent_actions[Len(state.agent_actions)] = S("finalize")
    THEN {"respond"}
    ELSE {"think"}

Graph_11 ==
    [nodes |-> {"think", "act", "respond"},
     entry |-> "think",
     edges |-> {<<"think", "act">>, <<"respond", END>>},
     allow |-> ("act" :> (("think" :> "think") @@ ("respond" :> "respond"))),
     threads |-> {DefaultThread},
     initial |->
        {[user_query |-> q, agent_thoughts |-> << >>, agent_actions |-> << >>,
          tool_results |-> << >>, final_answer |-> << >>, iteration_count |-> 0,
          max_iterations |-> m, should_continue |-> TRUE]
            : q \in StrsUpTo(1), m \in 0..(MaxNum + 1)}]

\* ------------------------------------------------- 12_timeouts_retries.py
\* Time is counted in whole seconds; a sleep delay is counted in
\* milliseconds and a backoff multiplier is the fraction <<num, den>>.
\* with_timeout(timeout_seconds): what a call of the wrapper ends with when
\* the wrapped function ended with `kind` ("return" or the exception it
\* raised) after `elapsed` seconds
with_timeout_12(timeout_seconds, kind, elapsed) ==
    IF kind = "return" /\ elapsed > timeout_seconds THEN "TimeoutError" ELSE kind

\* a stack of with_timeout decorators, innermost first
RECURSIVE with_timeouts_12(_, _, _)
with_timeouts_12(timeouts, kind, elapsed) ==
    IF timeouts = << >> THEN kind
    ELSE with_timeouts_12(Tail(timeouts),
                          with_timeout_12(timeouts[1], kind, elapsed), elapsed)

\* with_retry(...)(func) before it is called; outcomes records what each
\* call of func ended with
Wrapper(max_retries, multiplier, initial_delay, timeouts, plan) ==
    [pc |-> "idle", max_retries |-> max_retries, multiplier |-> multiplier,
     initial_delay |-> initial_delay, timeouts |-> timeouts, plan |-> plan,
     attempt |-> 0, calls |-> 0, elapsed |-> 0, delay |-> initial_delay,
     slept |-> << >>, last_exception |-> "none", outcomes |-> << >>]

\* wrapper(*args): last_exception = None, delay = initial_delay, and the
\* first pass of `for attempt in range(max_retries + 1)` calls func
with_retry_call_12(w) ==
    IF w.max_retries + 1 > 0
    THEN [w EXCEPT !.pc = "calling", !.attempt = 0, !.calls = 1, !.elapsed = 0,
                   !.delay = w.initial_delay, !.last_exception = "none"]
    ELSE [w EXCEPT !.pc = "raised", !.last_exception = "TypeError"]

with_retry_end_12_RetriesOnlyOnce(w) ==
    LET kind == with_timeouts_12(w.timeouts, w.plan[w.calls], w.elapsed) IN
    IF kind = "return"
    THEN [w EXCEPT !.pc = "returned", !.outcomes = Append(w.outcomes, kind)]
    ELSE IF w.attempt < w.max_retries /\ w.attempt < 1
         THEN [w EXCEPT !.pc = "sleeping", !.last_exception = kind,
                        !.outcomes = Append(w.outcomes, kind)]
         ELSE [w EXCEPT !.pc = "raised", !.last_exception = kind,
                        !.outcomes = Append(w.outcomes, kind)]

\* the call of func in the try block ends: return its result, or catch the
\* exception and either go on to sleep or leave the loop and re-raise
with_retry_end_12(w) ==
    LET kind == with_timeouts_12(w.timeouts, w.plan[w.calls], w.elapsed) IN
    IF kind = "return"
    THEN [w EXCEPT !.pc = "returned", !.outcomes = Append(w.outcomes, kind)]
    ELSE IF w.attempt < w.max_retries
         THEN [w EXCEPT !.pc = "sleeping", !.last_exception = kind,
                        !.outcomes = Append(w.outcomes, kind)]
         ELSE [w EXCEPT !.pc = "raised", !.last_exception = kind,
                        !.outcomes = Append(w.outcomes, kind)]

with_retry_wake_12_ConstantDelay(w) ==
    [w EXCEPT !.pc = "calling",
              !.slept = Append(w.slept, w.delay),
              !.attempt = w.attempt + 1,
              !.calls = w.calls + 1,
              !.elapsed = 0]

\* time.sleep(delay); delay *= backoff_multiplier; next pass of the loop
with_retry_wake_12(w) ==
    [w EXCEPT !.pc = "calling",
              !.slept = Append(w.slept, w.delay),
              !.delay = (w.delay * w.multiplier[1]) \div w.multiplier[2],
              !.attempt = w.attempt + 1,
              !.calls = w.calls + 1,
              !.elapsed = 0]

\* the body of unreliable_operation: "ValueError" or the returned update
unreliable_operation_12(state) ==
    IF state.retry_count < 2
    THEN [raised |-> TRUE,
          msg |-> S("Simulated failure on attempt ") \o IntStr(state.retry_count + 1)]
    ELSE [raised |-> FALSE,
          ret |-> [result |-> S("Successfully processed: ") \o state.input_data,
                   success |-> TRUE,
                   error |-> None]]

\* execute = with_retry(1, 1.5, 0.5)(with_timeout(5.0)(lambda:
\* unreliable_operation(state))), unreliable_operation itself being
\* decorated with with_timeout(5.0)
execute_12(state) ==
    LET kind == IF unreliable_operation_12(state).raised THEN "ValueError" ELSE "return"
    IN Wrapper(1, <<3, 2>>, 500, <<5, 5>>, <<kind, kind>>)

\* robust_operation_node, given what execute() ended with; the measured
\* operation_duration is abstracted to 0
robust_operation_node_12(state, w) ==
    IF w.pc = "returned"
    THEN Call(state, ("operation_duration" :> 0) @@ unreliable_operation_12(state).ret)
    ELSE IF w.last_exception = "TimeoutError"
    THEN Call(state,
              [error |-> Some(S("Timeout: ") \o S("Operation exceeded timeout of ")
                                \o S("5.0") \o S("s")),
               operation_duration |-> 0])
    ELSE Call(state,
              [error |-> Some(unreliable_operation_12(state).msg),
               operation_duration |-> 0])

\* "Timeout" in error: the literal fragments that contain the word
HasTimeout(s) == \E i \in 1..Len(s) : s[i] \in {"Timeout: ", "Timeout"}

\* f"{error}" of an optional str
OptStr(o) == IF o = None THEN S("None") ELSE o[1]

retry_handler_12(state) ==
    LET is_timeout == IF TruthyOpt(state.error) THEN HasTimeout(state.error[1]) ELSE FALSE
        is_retryable == ~is_timeout /\ state.retry_count < state.max_retries
    IN IF is_timeout
       THEN Call(state,
                 [error |-> Some(S("Operation timed out and is not retryable: ")
                                   \o OptStr(state.error))])
       ELSE IF is_retryable
       THEN Call(state, [retry_count |-> state.retry_count + 1, error |-> None])
       ELSE Call(state,
                 [error |-> Some(S("Failed after ") \o IntStr(state.retry_count)
                                   \o S(" retries: ") \o OptStr(state.error))])

fallback_handler_12_NoSuccess(state) ==
    Call(state,
         [result |-> S("Fallback result for: ") \o state.input_data
                       \o S(" (Original operation failed: ") \o OptStr(state.error)
                       \o S(")")])

fallback_handler_12(state) ==
    Call(state,
         [result |-> S("Fallback result for: ") \o state.input_data
                       \o S(" (Original operation failed: ") \o OptStr(state.error)
                       \o S(")"),
          success |-> TRUE])

route_after_retry_12(state) ==
    IF state.success THEN {END}
    ELSE IF TruthyOpt(state.error) /\ state.retry_count < state.max_retries
              /\ ~HasTimeout(state.error[1])
         THEN {"robust_operation"}
         ELSE {"fallback_handler"}

route_after_robust_operation_12(state) ==
    IF TruthyOpt(state.error) THEN {"retry_handler"} ELSE {END}

Graph_12 ==
    [nodes |-> {"robust_operation", "retry_handler", "fallback_handler"},
     entry |-> "robust_operation",
     edges |-> {<<"fallback_handler", END>>},
     allow |-> ("robust_operation" :>
                  (("retry_handler" :> "retry_handler") @@ (END :> END)))
               @@ ("retry_handler" :>
                  (("robust_operation" :> "robust_operation")
                     @@ ("fallback_handler" :> "fallback_handler") @@ (END :> END))),
     threads |-> {DefaultThread},
     initial |->
        {[input_data |-> d, result |-> << >>, retry_count |-> rc, max_retries |-> mr,
          backoff_multiplier |-> 2, operation_duration |-> 0, timeout_seconds |-> 5,
          error |-> e, success |-> FALSE]
            : d \in StrsUpTo(1), rc \in 0..MaxRetry, mr \in 0..(MaxRetry + 1),
              e \in {None, Some(S("boom")), Some(S("Timeout: ") \o S("boom"))}}]

\* ------------------------------------------------- 13_streaming_agents.py
\* In this tutorial a space is always a token of its own (" ") and no other
\* token contains one, so len(s.split(" ")) is the number of " " tokens + 1
\* (also for the empty string: "".split(" ") is [""]).
agent_think_streaming_13(state) ==
    LET thoughts == <<<<"Analyzing", " ", "query:", " ">> \o state.user_query,
                      <<"Determining", " ", "required", " ", "information">>,
                      <<"Selecting", " ", "appropriate", " ", "tools">>>>
        thought == IF state.iteration < Len(thoughts)
                   THEN thoughts[state.iteration + 1]
                   ELSE <<"Ready", " ", "to", " ", "take", " ", "action">>
    IN Call(state, [agent_thought |-> thought, iteration |-> state.iteration + 1])

agent_act_streaming_13(state) ==
    LET \* frag in s, for the fragments the node looks for
        In(frag, s) ==
            \E i \in 1..Len(s) :
                s[i] \in (CASE frag = "user" -> {"user", "user_id"}
                            [] frag = "order" -> {"order", "order_id"}
                            [] OTHER -> {frag})
        agent_thought == Lower(state.agent_thought)
        user_query == Lower(state.user_query)
        order == ~(In("user", agent_thought) \/ In("user_id", user_query))
                   /\ (In("order", agent_thought) \/ In("order_id", user_query))
        get_user_info == <<"User", " ", "12345:", " ", "John", " ", "Doe,", " ",
                           "email:", " ", "john@example.com">>
        get_order_info == <<"Order", " ", "ORD-001:", " ", "Status:", " ",
                            "Shipped,", " ", "Total:", " ", "$99.99">>
    IN Call(state,
            [tool_name |-> IF order THEN S("get_order_info") ELSE S("get_user_info"),
             tool_input |-> IF order THEN <<"{'order_id':", " ", "'ORD-001'}">>
                            ELSE <<"{'user_id':", " ", "'12345'}">>,
             tool_output |-> IF order THEN get_order_info ELSE get_user_info])

\* response_chunks[k] with k past the last chunk raises IndexError; the
\* index is taken only when partial_response is not empty
agent_respond_streaming_13(state) ==
    LET partial_response == state.partial_response
        Words(s) == Cardinality({i \in 1..Len(s) : s[i] = " "}) + 1
        response_chunks ==
            <<<<"Based", " ", "on", " ", "my", " ", "analysis", " ", "of", " ", "'">>
                \o state.user_query \o <<"',">>,
              <<" ", "I", " ", "used", " ", "the", " ">> \o state.tool_name
                \o <<" ", "tool">>,
              <<" ", "and", " ", "found:", " ">> \o state.tool_output,
              <<" ", "This", " ", "answers", " ", "your", " ", "question.">>>>
        joined == Join(S(" "), response_chunks)
        new_chunk == IF partial_response # << >>
                     THEN response_chunks[(Words(partial_response) \div 3) + 1]
                     ELSE response_chunks[1]
        new_partial == IF partial_response # << >>
                       THEN partial_response \o S(" ") \o new_chunk
                       ELSE new_chunk
        is_complete == Words(partial_response) >= Words(joined) - 2
    IN Call(state,
            [partial_response |-> new_partial,
             final_response |-> IF is_complete THEN joined ELSE << >>])

should_continue_streaming_13(state) ==
    IF state.final_response # << >> THEN {"end"}
    ELSE IF state.iteration >= state.max_iterations THEN {"respond"}
    ELSE {"think"}

Graph_13 ==
    [nodes |-> {"think", "act", "respond"},
     entry |-> "think",
     edges |-> {<<"think", "act">>},
     allow |-> ("act" :> (("think" :> "think") @@ ("respond" :> "respond")))
               @@ ("respond" :> (("think" :> "think") @@ ("end" :> END))),
     threads |-> {DefaultThread},
     initial |->
        {[user_query |-> q, agent_thought |-> << >>, tool_name |-> << >>,
          tool_input |-> << >>, tool_output |-> << >>, partial_response |-> << >>,
          final_response |-> << >>, iteration |-> 0, max_iterations |-> m]
            : q \in {<<"What", " ", "is", " ", "the", " ", "status", " ", "of", " ",
                       "order", " ", "ORD-001?">>,
                     << >>, <<"USER">>, <<"order_id">>, <<"user_id", " ", "order">>},
              m \in 0..MaxNum}]

\* ------------------------------------------------- 14_graph_comparison.py
node_a_14(state) ==
    LET results == Append(state.results, S("NodeA: ") \o state.input_data) IN
    Call([state EXCEPT !.results = results], [results |-> results])

node_b_14(state) ==
    LET results == Append(state.results, S("NodeB: ") \o state.input_data) IN
    Call([state EXCEPT !.results = results], [results |-> results])

node_c_14(state) ==
    LET results == Append(state.results, S("NodeC: ") \o state.input_data) IN
    Call([state EXCEPT !.results = results], [results |-> results])

route_to_parallel_14(state) == {"node_b", "node_c"}

Initial_14(pattern_name) ==
    {[input_data |-> d, results |-> << >>, execution_time |-> 0,
      pattern_used |-> S(pattern_name)] : d \in Inputs}

Graph_14seq_SkipB ==
    [nodes |-> {"node_a", "node_b", "node_c"},
     entry |-> "node_a",
     edges |-> {<<"node_a", "node_c">>, <<"node_b", "node_c">>, <<"node_c", END>>},
     allow |-> << >>,
     threads |-> {DefaultThread},
     initial |-> Initial_14("Sequential")]

\* create_sequential_graph
Graph_14seq ==
    [nodes |-> {"node_a", "node_b", "node_c"},
     entry |-> "node_a",
     edges |-> {<<"node_a", "node_b">>, <<"node_b", "node_c">>, <<"node_c", END>>},
     allow |-> << >>,
     threads |-> {DefaultThread},
     initial |-> Initial_14("Sequential")]

\* create_parallel_graph
Graph_14par ==
    [nodes |-> {"node_a", "node_b", "node_c"},
     entry |-> "node_a",
     edges |-> {<<"node_b", END>>, <<"node_c", END>>},
     allow |-> ("node_a" :> (("node_b" :> "node_b") @@ ("node_c" :> "node_c"))),
     threads |-> {DefaultThread},
     initial |-> Initial_14("Parallel")]

\* create_hybrid_graph
node_d_14(state) ==
    LET results == Append(state.results, S("NodeD: ") \o state.input_data) IN
    Call([state EXCEPT !.results = results], [results |-> results])

route_after_b_14_AtLeastThree(state) ==
    IF Len(state.results) >= 3 THEN {"node_c"} ELSE {"node_d"}

route_after_b_14(state) ==
    IF Len(state.results) >= 2 THEN {"node_c"} ELSE {"node_d"}

Graph_14hyb ==
    [nodes |-> {"node_a", "node_b", "node_c", "node_d"},
     entry |-> "node_a",
     edges |-> {<<"node_a", "node_b">>, <<"node_c", END>>, <<"node_d", END>>},
     allow |-> ("node_b" :> (("node_c" :> "node_c") @@ ("node_d" :> "node_d"))),
     threads |-> {DefaultThread},
     initial |-> {[s EXCEPT !.results = r]
                    : s \in Initial_14("Hybrid"),
                      r \in {<< >>, <<S("x")>>, <<S("x"), S("y")>>}}]

\* run_graph_pattern
\* --------------------------------------------------- 15_advanced_state.py
\* datetime.datetime.now().isoformat() is abstracted to the token "now"
\* returns <<is_valid, error_message>>
validate_state_15(state) ==
    IF "task_id" \notin DOMAIN state
    THEN <<FALSE, S("Missing required field: task_id")>>
    ELSE IF "user" \notin DOMAIN state
    THEN <<FALSE, S("Missing required field: user")>>
    ELSE IF "user_id" \notin DOMAIN state.user
    THEN <<FALSE, S("User profile missing user_id")>>
    ELSE IF state.status \notin {S("pending"), S("processing"), S("completed"), S("failed")}
    THEN <<FALSE, S("Invalid status. Must be one of: ")
                    \o S("['pending', 'processing', 'completed', 'failed']")>>
    ELSE <<TRUE, << >> >>

initialize_node_15(state) ==
    Call(state,
         [task_id |-> state.task_id,
          status |-> S("processing"),
          user |-> [user_id |-> S("USER-123"), name |-> S("John Doe"),
                    email |-> S("john@example.com"),
                    preferences |-> [theme |-> S("dark"), language |-> S("en")]],
          steps |-> << >>,
          results |-> << >>,
          metadata |-> [start_time |-> S("now"), nodes_executed |-> << >>,
                        errors |-> << >>, warnings |-> << >>],
          messages |-> <<S("State initialized")>>])

process_node_15(state) ==
    LET new_step == S("Processing step ") \o IntStr(Len(state.steps) + 1)
        steps == Append(state.steps, new_step)
        new_result == [step |-> new_step,
                       output |-> S("Processed for task ") \o state.task_id,
                       timestamp |-> IntStr(Len(state.results))]
        results == Append(state.results, new_result)
        nodes_executed == Append(Get(state.metadata, "nodes_executed", << >>),
                                 S("process_node"))
        messages == Append(state.messages, S("Executed ") \o new_step)
        metadata == IF "nodes_executed" \in DOMAIN state.metadata
                    THEN [state.metadata EXCEPT !.nodes_executed = nodes_executed]
                    ELSE state.metadata
    IN Call([state EXCEPT !.steps = steps, !.results = results,
                          !.metadata = metadata, !.messages = messages],
            [steps |-> steps,
             results |-> results,
             metadata |-> ("nodes_executed" :> nodes_executed) @@ state.metadata,
             messages |-> messages])

validate_node_15(state) ==
    LET v == validate_state_15(state)
        is_valid == v[1]
        error_message == v[2]
        errors0 == Get(state.metadata, "errors", << >>)
        warnings == Get(state.metadata, "warnings", << >>)
        errors == IF is_valid THEN errors0 ELSE Append(errors0, error_message)
        messages == IF is_valid
                    THEN Append(state.messages, S("Validation passed"))
                    ELSE Append(state.messages,
                                S("Validation failed: ") \o error_message)
        metadata == IF "errors" \in DOMAIN state.metadata
                    THEN [state.metadata EXCEPT !.errors = errors]
                    ELSE state.metadata
    IN Call([state EXCEPT !.metadata = metadata, !.messages = messages],
            [status |-> IF is_valid THEN S("completed") ELSE S("failed"),
             metadata |-> ("errors" :> errors) @@ ("warnings" :> warnings)
                            @@ state.metadata,
             messages |-> messages])

Graph_15 ==
    [nodes |-> {"initialize", "process", "validate"},
     entry |-> "initialize",
     edges |-> {<<"initialize", "process">>, <<"process", "validate">>,
                <<"validate", END>>},
     allow |-> << >>,
     threads |-> {DefaultThread},
     initial |->
        {[task_id |-> id, status |-> S("pending"), user |-> << >>, steps |-> << >>,
          results |-> << >>, metadata |-> << >>, messages |-> << >>]
            : id \in {S("TASK-001")} \cup StrsUpTo(1)}]

\* ------------------------------------------- 16_orchestration_patterns.py
\* the orders in which a Python set of task names can be iterated (the order
\* depends on the string hashes of the process)
IterationOrders_16 ==
    {ord \in [1..3 -> {S("task_a"), S("task_b"), S("task_c")}]
        : \A i, j \in 1..3 : ord[i] = ord[j] => i = j}

task_a_16(state) ==
    IF Get(state.resources, "resource_1", FALSE)
    THEN LET completed_tasks == Append(state.completed_tasks, S("task_a"))
             resources == [state.resources EXCEPT !["resource_1"] = TRUE]
         IN Call([state EXCEPT !.completed_tasks = completed_tasks,
                               !.resources = resources],
                 [completed_tasks |-> completed_tasks, resources |-> resources])
    ELSE Call(state, state)

task_b_16(state) ==
    IF ~InList(S("task_a"), state.completed_tasks)
    THEN Call(state, state)
    ELSE LET completed_tasks == Append(state.completed_tasks, S("task_b")) IN
         Call([state EXCEPT !.completed_tasks = completed_tasks],
              [completed_tasks |-> completed_tasks])

task_c_16(state) ==
    LET completed_tasks == Append(state.completed_tasks, S("task_c")) IN
    Call([state EXCEPT !.completed_tasks = completed_tasks],
         [completed_tasks |-> completed_tasks])

\* ord: the iteration order of the set `remaining`
dependency_resolver_16(state, ord) ==
    LET all_tasks ==
            UNION {{state.tasks[i].name}
                     \cup {Get(state.task_dependencies, state.tasks[i].name, << >>)[j]
                             : j \in 1..Len(Get(state.task_dependencies,
                                                state.tasks[i].name, << >>))}
                   : i \in 1..Len(state.tasks)}
        completed == {state.completed_tasks[i] : i \in 1..Len(state.completed_tasks)}
        remaining == all_tasks \ completed
        ready(task_name) ==
            LET deps == Get(state.task_dependencies, task_name, << >>) IN
            \A j \in 1..Len(deps) : deps[j] \in completed
        new_order == SelectSeq(ord, LAMBDA n : n \in remaining /\ ready(n))
        execution_order == state.execution_order \o new_order
    IN Call([state EXCEPT !.execution_order = execution_order],
            [execution_order |-> execution_order])

resource_manager_16(state) ==
    LET resources == IF state.resources = << >>
                     THEN [resource_1 |-> TRUE, resource_2 |-> TRUE]
                     ELSE state.resources
    IN Call(state, [resources |-> resources])

orchestrator_node_16(state) ==
    LET remaining_tasks ==
            SelectSeq(state.execution_order,
                      LAMBDA n : ~InList(n, state.completed_tasks))
    IN Call(state,
            [orchestration_status |->
                IF remaining_tasks = << >> THEN S("completed")
                ELSE state.orchestration_status])

route_orchestration_16(state) ==
    LET remaining_tasks ==
            SelectSeq(state.execution_order,
                      LAMBDA n : ~InList(n, state.completed_tasks))
    IN IF state.orchestration_status = S("completed") THEN {"end"}
       ELSE IF remaining_tasks # << >>
                 /\ remaining_tasks[1] \in {S("task_a"), S("task_b"), S("task_c")}
            THEN {remaining_tasks[1][1]}
            ELSE {"end"}

Graph_16 ==
    [nodes |-> {"dependency_resolver", "resource_manager", "task_a", "task_b",
                "task_c", "orchestrator"},
     entry |-> "dependency_resolver",
     edges |-> {<<"dependency_resolver", "resource_manager">>,
                <<"resource_manager", "orchestrator">>,
                <<"task_a", "orchestrator">>, <<"task_b", "orchestrator">>,
                <<"task_c", "orchestrator">>},
     allow |-> ("orchestrator" :>
                  (("task_a" :> "task_a") @@ ("task_b" :> "task_b")
                     @@ ("task_c" :> "task_c") @@ ("end" :> END))),
     threads |-> {DefaultThread},
     initial |->
        {[workflow_id |-> S("WORKFLOW-001"),
          tasks |-> <<[name |-> S("task_a"), description |-> S("Initial task")],
                      [name |-> S("task_b"), description |-> S("Depends on task_a")],
                      [name |-> S("task_c"), description |-> S("Independent task")]>>,
          completed_tasks |-> << >>,
          failed_tasks |-> << >>,
          task_dependencies |-> (S("task_b") :> <<S("task_a")>>),
          resources |-> r,
          execution_order |-> << >>,
          orchestration_status |-> S("pending")]
            : r \in {<< >>, [resource_1 |-> TRUE, resource_2 |-> TRUE]}}]

\* ------------------------------------------------ 17_checkpoints_sqlite.py
step_one_17(state) ==
    LET results == Append(state.results,
                          S("Step 1: Started processing '")
                            \o state.task_description \o S("'")) IN
    Call([state EXCEPT !.results = results],
         [current_step |-> 1, results |-> results])

step_two_17(state) ==
    LET results == Append(state.results,
                          S("Step 2: Analyzed '")
                            \o state.task_description \o S("'")) IN
    Call([state EXCEPT !.results = results],
         [current_step |-> 2, results |-> results])

step_three_17(state) ==
    LET results == Append(state.results,
                          S("Step 3: Completed '")
                            \o state.task_description \o S("'")) IN
    Call([state EXCEPT !.results = results],
         [current_step |-> 3, results |-> results, completed |-> TRUE])

Graph_17 ==
    [nodes |-> {"step_one", "step_two", "step_three"},
     entry |-> "step_one",
     edges |-> {<<"step_one", "step_two">>, <<"step_two", "step_three">>,
                <<"step_three", END>>},
     allow |-> << >>,
     threads |-> {"user-001", "user-002"}]

initial_state_user2_17_CopyOfUser1 ==
    [user_id |-> S("user-001"), task_description |-> S("Process user 1's request"),
     current_step |-> 0, total_steps |-> 3, results |-> << >>, completed |-> FALSE]

initial_state_user2_17 ==
    [user_id |-> S("user-002"), task_description |-> S("Process user 2's request"),
     current_step |-> 0, total_steps |-> 3, results |-> << >>, completed |-> FALSE]

Initial_17 ==
    LET initial_state_user1 ==
            [user_id |-> S("user-001"),
             task_description |-> S("Process user 1's request"),
             current_step |-> 0, total_steps |-> 3, results |-> << >>,
             completed |-> FALSE]
    IN {[t \in Graph_17.threads |->
            IF t = "user-001" THEN initial_state_user1 ELSE initial_state_user2_17]}

\* ----------------------------------------------- 18_branching_merging.py
\* A dict is the sequence of its <<key, value>> items in insertion order.
MaxInput_18 == 12

\* d[k] = v
SetItem(d, k, v) ==
    IF \E i \in 1..Len(d) : d[i][1] = k
    THEN [i \in 1..Len(d) |-> IF d[i][1] = k THEN <<k, v>> ELSE d[i]]
    ELSE Append(d, <<k, v>>)

branch_a_processor_18(state) ==
    LET branch_results == SetItem(state.branch_results, "branch_a",
                                  S("BranchA: ") \o Upper(state.input_data))
    IN Call([state EXCEPT !.branch_results = branch_results],
            [branch_results |-> branch_results])

branch_b_processor_18(state) ==
    LET branch_results == SetItem(state.branch_results, "branch_b",
                                  S("BranchB: ") \o Lower(state.input_data))
    IN Call([state EXCEPT !.branch_results = branch_results],
            [branch_results |-> branch_results])

branch_c_processor_18(state) ==
    LET branch_results == SetItem(state.branch_results, "branch_c",
                                  S("BranchC: ") \o Reverse(state.input_data))
    IN Call([state EXCEPT !.branch_results = branch_results],
            [branch_results |-> branch_results])

merge_all_strategy_18(state) ==
    LET all_results == [i \in 1..Len(state.branch_results) |-> state.branch_results[i][2]]
    IN Call(state,
            [merged_result |-> Join(S(" | "), all_results),
             merge_strategy |-> S("merge_all")])

merge_selective_strategy_18(state) ==
    LET items == {state.branch_results[i] : i \in 1..Len(state.branch_results)}
        pick(k) == IF \E it \in items : it[1] = k
                   THEN <<(CHOOSE it \in items : it[1] = k)[2]>>
                   ELSE << >>
        selected_results == pick("branch_a") \o pick("branch_b")
    IN Call(state,
            [merged_result |-> IF selected_results # << >>
                               THEN Join(S(" + "), selected_results)
                               ELSE S("No results"),
             merge_strategy |-> S("merge_selective")])

merge_priority_strategy_18(state) ==
    LET keys == {state.branch_results[i][1] : i \in 1..Len(state.branch_results)}
        value(k) == (CHOOSE it \in {state.branch_results[i]
                                      : i \in 1..Len(state.branch_results)} :
                        it[1] = k)[2]
    IN Call(state,
            [merged_result |->
                IF "branch_a" \in keys THEN value("branch_a")
                ELSE IF "branch_b" \in keys THEN value("branch_b")
                ELSE IF "branch_c" \in keys THEN value("branch_c")
                ELSE S("No results available"),
             merge_strategy |-> S("merge_priority")])

route_to_merge_strategy_18(state) ==
    LET num_branches == Len(state.branch_results) IN
    IF num_branches >= 3 THEN {"merge_all_strategy"}
    ELSE IF num_branches = 2 THEN {"merge_selective_strategy"}
    ELSE {"merge_priority_strategy"}

\* the lambda given to add_conditional_edges for branch_a_processor
route_after_branch_a_18(state) ==
    IF Len(state.input_data) > 10
    THEN {"branch_b_processor", "branch_c_processor"}
    ELSE {END}

Graph_18 ==
    [nodes |-> {"branch_a_processor", "branch_b_processor", "branch_c_processor",
                "merge_all_strategy", "merge_selective_strategy",
                "merge_priority_strategy"},
     entry |-> "branch_a_processor",
     edges |-> {<<"branch_b_processor", "merge_all_strategy">>,
                <<"branch_c_processor", "merge_all_strategy">>,
                <<"merge_selective_strategy", END>>,
                <<"merge_priority_strategy", END>>},
     allow |-> ("branch_a_processor" :>
                  (("branch_b_processor" :> "branch_b_processor")
                     @@ ("branch_c_processor" :> "branch_c_processor")))
               @@ ("merge_all_strategy" :>
                  (("merge_all_strategy" :> END)
                     @@ ("merge_selective_strategy" :> "merge_selective_strategy")
                     @@ ("merge_priority_strategy" :> "merge_priority_strategy"))),
     threads |-> {DefaultThread},
     initial |->
        {[input_data |-> [i \in 1..n |-> IF i % 2 = 1 THEN "a" ELSE "B"],
          branch_paths |-> << >>, branch_results |-> << >>,
          merged_result |-> << >>, merge_strategy |-> << >>]
            : n \in 0..MaxInput_18}]

\* ------------------------------------------------- 19_async_execution.py
\* This tutorial builds no graph: main awaits the node functions directly.
\* time.time() differences are abstracted to 0.
\* asyncio.gather(*aws) once every awaitable is done; done lists
\* <<position of the awaitable, its result>> in the order of completion
asyncio_gather_19_CompletionOrder(done) == [k \in 1..Len(done) |-> done[k][2]]

asyncio_gather_19(done) ==
    [i \in 1..Len(done) |->
        (CHOOSE d \in {done[k] : k \in 1..Len(done)} : d[1] = i)[2]]

\* concurrent_operations_node from the point where the await returns results
concurrent_operations_node_19(state, results) ==
    LET async_results == state.async_results \o results
        processing_times == ("concurrent_operations" :> 0) @@ state.processing_times
    IN Call([state EXCEPT !.async_results = async_results,
                          !.processing_times = processing_times],
            [async_results |-> async_results,
             processing_times |-> processing_times,
             completed_tasks |-> Get(state, "completed_tasks", 0) + Len(results)])

\* --------------------------------------------------- 20_production_app.py
\* Clock readings (time.time(), datetime.now()) are abstracted: a duration
\* is 0 and a timestamp is the token "now".
Now_20 == S("now")

input_validation_node_20_AcceptsEmpty(state) ==
    LET nodes_executed == Append(state.nodes_executed, S("input_validation")) IN
    Call([state EXCEPT !.nodes_executed = nodes_executed],
         [status |-> S("processing"),
          errors |-> state.errors,
          warnings |-> state.warnings,
          nodes_executed |-> nodes_executed,
          node_durations |-> ("input_validation" :> 0) @@ state.node_durations,
          current_step |-> S("validated"),
          messages |-> Append(state.messages, S("Input validated successfully"))])

input_validation_node_20(state) ==
    IF state.user_input = << >>
    THEN LET errors == Append(state.errors, S("Input is empty")) IN
         Call([state EXCEPT !.errors = errors],
              [status |-> S("failed"),
               errors |-> errors,
               messages |-> Append(state.messages, S("Validation failed: empty input"))])
    ELSE LET warnings == IF Len(state.user_input) < 3
                         THEN Append(state.warnings, S("Input is very short"))
                         ELSE state.warnings
             nodes_executed == Append(state.nodes_executed, S("input_validation"))
         IN Call([state EXCEPT !.warnings = warnings,
                               !.nodes_executed = nodes_executed],
                 [status |-> S("processing"),
                  errors |-> state.errors,
                  warnings |-> warnings,
                  nodes_executed |-> nodes_executed,
                  node_durations |-> ("input_validation" :> 0) @@ state.node_durations,
                  current_step |-> S("validated"),
                  messages |-> Append(state.messages, S("Input validated successfully"))])

processing_node_20(state) ==
    LET nodes_executed == Append(state.nodes_executed, S("processing")) IN
    Call([state EXCEPT !.nodes_executed = nodes_executed],
         [processed_data |-> S("Processed: ") \o Upper(state.user_input),
          nodes_executed |-> nodes_executed,
          node_durations |-> ("processing" :> 0) @@ state.node_durations,
          current_step |-> S("processed"),
          messages |-> Append(state.messages, S("Processing completed"))])

output_node_20(state) ==
    LET nodes_executed == Append(state.nodes_executed, S("output")) IN
    Call([state EXCEPT !.nodes_executed = nodes_executed],
         [status |-> S("completed"),
          end_time |-> Some(Now_20),
          execution_time |-> 0,
          nodes_executed |-> nodes_executed,
          node_durations |-> ("output" :> 0) @@ state.node_durations,
          current_step |-> S("completed"),
          messages |-> Append(state.messages, S("Workflow completed successfully"))])

error_handler_node_20(state) ==
    LET error_summary == Join(S("; "), state.errors) IN
    Call(state,
         [status |-> S("failed"),
          end_time |-> Some(Now_20),
          messages |-> Append(state.messages, S("Workflow failed: ") \o error_summary)])

route_after_validation_20(state) ==
    IF state.status = S("failed") \/ state.errors # << >>
    THEN {"error_handler"}
    ELSE {"processing_node"}

route_after_processing_20_AlwaysError(state) == {"error_handler"}

route_after_processing_20(state) ==
    IF state.status = S("failed") \/ state.errors # << >>
    THEN {"error_handler"}
    ELSE {"output_node"}

Graph_20 ==
    [nodes |-> {"input_validation", "processing_node", "output_node", "error_handler"},
     entry |-> "input_validation",
     edges |-> {<<"output_node", END>>, <<"error_handler", END>>},
     allow |-> ("input_validation" :>
                  (("processing_node" :> "processing_node")
                     @@ ("error_handler" :> "error_handler")))
               @@ ("processing_node" :>
                  (("output_node" :> "output_node")
                     @@ ("error_handler" :> "error_handler"))),
     threads |-> {"REQ-001"},
     initial |->
        {[request_id |-> S("REQ-001"), user_input |-> u, processed_data |-> << >>,
          start_time |-> Now_20, end_time |-> None, execution_time |-> 0,
          status |-> S("pending"), current_step |-> S("start"), errors |-> << >>,
          warnings |-> << >>, nodes_executed |-> << >>, node_durations |-> << >>,
          messages |-> << >>, metadata |-> ("test_case" :> S("1"))] : u \in Inputs}]

\* ============================================================ graph tables
Programs ==
    {"01", "02", "03", "04", "05", "06", "07", "08", "09", "11", "12", "13",
     "14seq", "14par", "14hyb", "15", "16", "17", "18", "20"}

\* the compiled graph of a tutorial
Graph(p) ==
    CASE p = "01" -> Graph_01 [] p = "02" -> Graph_02 [] p = "03" -> Graph_03
      [] p = "04" -> Graph_04 [] p = "05" -> Graph_05 [] p = "06" -> Graph_06 [] p = "07" -> Graph_07
      [] p = "08" -> Graph_08 [] p = "09" -> Graph_09
      [] p = "09sub" -> create_preprocessing_subgraph_09 [] p = "11" -> Graph_11
      [] p = "12" -> Graph_12 [] p = "13" -> Graph_13
      [] p = "14seq" -> Graph_14seq [] p = "14par" -> Graph_14par
      [] p = "14hyb" -> Graph_14hyb
      [] p = "15" -> Graph_15 [] p = "16" -> Graph_16 [] p = "17" -> Graph_17
      [] p = "18" -> Graph_18 [] p = "20" -> Graph_20

\* add_conditional_edges: the mapping of routing-function outputs to targets
AllowList(p, n) ==
    IF n \in DOMAIN Graph(p).allow THEN Graph(p).allow[n] ELSE << >>

\* config = {"configurable": {"thread_id": ...}}
Threads(p) == Graph(p).threads

\* add_conditional_edges: the routing function of node n, applied to state
Router(p, n, state) ==
    CASE p = "03" /\ n = "start" -> route_by_number_03(state)
      [] p = "04" /\ n = "start" -> route_to_all_paths_04(state)
      [] p = "05" /\ n = "get_feedback" -> route_after_feedback_05(state)
      [] p = "06" /\ n = "safe_operation" -> route_after_safe_operation_06(state)
      [] p = "06" /\ n = "error_handler" -> route_after_error_handling_06(state)
      [] p = "11" /\ n = "act" -> should_continue_11(state)
      [] p = "12" /\ n = "robust_operation" -> route_after_robust_operation_12(state)
      [] p = "12" /\ n = "retry_handler" -> route_after_retry_12(state)
      [] p = "14par" /\ n = "node_a" -> route_to_parallel_14(state)
      [] p = "14hyb" /\ n = "node_b" -> route_after_b_14(state)
      [] p = "16" /\ n = "orchestrator" -> route_orchestration_16(state)
      [] p = "13" /\ n \in {"act", "respond"} -> should_continue_streaming_13(state)
      [] p = "18" /\ n = "branch_a_processor" -> route_after_branch_a_18(state)
      [] p = "18" /\ n = "merge_all_strategy" -> route_to_merge_strategy_18(state)
      [] p = "20" /\ n = "input_validation" -> route_after_validation_20(state)
      [] p = "20" /\ n = "processing_node" -> route_after_processing_20(state)
      [] OTHER -> {}

\* add_node: the function registered under node name n, applied to state
NodeCall(p, n, state) ==
    CASE p = "01" /\ n = "node_a" -> node_a_01(state)
      [] p = "01" /\ n = "node_b" -> node_b_01(state)
      [] p = "02" /\ n = "input" -> input_node_02(state)
      [] p = "02" /\ n = "process" -> process_node_02(state)
      [] p = "02" /\ n = "output" -> output_node_02(state)
      [] p = "03" /\ n = "start" -> start_node_03(state)
      [] p = "03" /\ n = "even_handler" -> even_handler_03(state)
      [] p = "03" /\ n = "odd_handler" -> odd_handler_03(state)
      [] p = "04" /\ n = "start" -> start_node_04(state)
      [] p = "04" /\ n = "path_a_processor" -> path_a_processor_04(state)
      [] p = "04" /\ n = "path_b_processor" -> path_b_processor_04(state)
      [] p = "04" /\ n = "path_c_processor" -> path_c_processor_04(state)
      [] p = "04" /\ n = "collect" -> collect_results_04(state)
      [] p = "05" /\ n = "process_query" -> process_query_05(state)
      [] p = "05" /\ n = "get_feedback" -> get_human_feedback_05(state)
      [] p = "05" /\ n = "revise_response" -> revise_response_05(state)
      [] p = "06" /\ n = "safe_operation" -> safe_operation_node_06(state)
      [] p = "06" /\ n = "error_handler" -> error_handler_06(state)
      [] p = "06" /\ n = "fallback_handler" -> fallback_handler_06(state)
      [] p = "07" /\ n = "step_one" -> step_one_07(state)
      [] p = "07" /\ n = "step_two" -> step_two_07(state)
      [] p = "07" /\ n = "step_three" -> step_three_07(state)
      [] p = "08" /\ n = "node_a" -> node_a_08(state)
      [] p = "08" /\ n = "node_b" -> node_b_08(state)
      [] p = "08" /\ n = "node_c" -> node_c_08(state)
      [] p = "09" /\ n = "main_node" -> main_graph_node_09(state)
      [] p = "09" /\ n = "final_node" -> final_node_09(state)
      [] p = "09sub" /\ n = "step1" -> preprocess_step1_09(state)
      [] p = "09sub" /\ n = "step2" -> preprocess_step2_09(state)
      [] p = "11" /\ n = "think" -> agent_think_11(state)
      [] p = "11" /\ n = "act" -> agent_act_11(state)
      [] p = "11" /\ n = "respond" -> agent_respond_11(state)
      [] p = "12" /\ n = "retry_handler" -> retry_handler_12(state)
      [] p = "12" /\ n = "fallback_handler" -> fallback_handler_12(state)
      [] p \in {"14seq", "14par", "14hyb"} /\ n = "node_a" -> node_a_14(state)
      [] p \in {"14seq", "14par", "14hyb"} /\ n = "node_b" -> node_b_14(state)
      [] p \in {"14seq", "14par", "14hyb"} /\ n = "node_c" -> node_c_14(state)
      [] p = "14hyb" /\ n = "node_d" -> node_d_14(state)
      [] p = "15" /\ n = "initialize" -> initialize_node_15(state)
      [] p = "15" /\ n = "process" -> process_node_15(state)
      [] p = "15" /\ n = "validate" -> validate_node_15(state)
      [] p = "16" /\ n = "resource_manager" -> resource_manager_16(state)
      [] p = "16" /\ n = "task_a" -> task_a_16(state)
      [] p = "16" /\ n = "task_b" -> task_b_16(state)
      [] p = "16" /\ n = "task_c" -> task_c_16(state)
      [] p = "16" /\ n = "orchestrator" -> orchestrator_node_16(state)
      [] p = "17" /\ n = "step_one" -> step_one_17(state)
      [] p = "17" /\ n = "step_two" -> step_two_17(state)
      [] p = "17" /\ n = "step_three" -> step_three_17(state)
      [] p = "13" /\ n = "think" -> agent_think_streaming_13(state)
      [] p = "13" /\ n = "act" -> agent_act_streaming_13(state)
      [] p = "13" /\ n = "respond" -> agent_respond_streaming_13(state)
      [] p = "18" /\ n = "branch_a_processor" -> branch_a_processor_18(state)
      [] p = "18" /\ n = "branch_b_processor" -> branch_b_processor_18(state)
      [] p = "18" /\ n = "branch_c_processor" -> branch_c_processor_18(state)
      [] p = "18" /\ n = "merge_all_strategy" -> merge_all_strategy_18(state)
      [] p = "18" /\ n = "merge_selective_strategy" -> merge_selective_strategy_18(state)
      [] p = "18" /\ n = "merge_priority_strategy" -> merge_priority_strategy_18(state)
      [] p = "20" /\ n = "input_validation" -> input_validation_node_20(state)
      [] p = "20" /\ n = "processing_node" -> processing_node_20(state)
      [] p = "20" /\ n = "output_node" -> output_node_20(state)
      [] p = "20" /\ n = "error_handler" -> error_handler_node_20(state)

\* the reducer a state schema declares for a channel (Annotated[..., reducer])
Reducer_Unannotated(p, ch) == "overwrite"

Reducer(p, ch) ==
    IF p \in {"15", "20"} /\ ch = "messages" THEN "append" ELSE "overwrite"

\* the callers that stop a run and later invoke(None, config) on its thread
Resumes(p, t) ==
    \/ p = "07" /\ t = "workflow-001"
    \/ p = "17" /\ t = "user-001"

\* ============================================================ channel store
\* the values the updates of one superstep contribute to channel ch, in the
\* order the node completions were registered
RECURSIVE Contributions(_, _)
Contributions(upds, ch) ==
    IF upds = << >> THEN << >>
    ELSE (IF ch \in DOMAIN upds[1].update THEN <<upds[1].update[ch]>> ELSE << >>)
           \o Contributions(Tail(upds), ch)

RECURSIVE Concat(_)
Concat(lists) ==
    IF lists = << >> THEN << >> ELSE lists[1] \o Concat(Tail(lists))

Written(upds) == UNION {DOMAIN upds[i].update : i \in 1..Len(upds)}

Conflicting_AnyTwoWriters(contribs) == Len(contribs) > 1

\* overwrite: two writers of one superstep that disagree are a conflict
Conflicting(contribs) ==
    \E i, j \in 1..Len(contribs) : contribs[i] # contribs[j]

ConflictChannels(p, upds) ==
    {ch \in Written(upds) :
        Reducer(p, ch) = "overwrite" /\ Conflicting(Contributions(upds, ch))}

\* apply: fold the partial updates of a superstep through the reducers
Apply(p, snap, upds) ==
    [ch \in DOMAIN snap \cup Written(upds) |->
        LET contribs == Contributions(upds, ch)
            old == IF ch \in DOMAIN snap THEN snap[ch] ELSE << >>
        IN IF contribs = << >> THEN old
           ELSE IF Reducer(p, ch) = "append" THEN old \o Concat(contribs)
           ELSE contribs[Len(contribs)]]

\* ================================================================= routing
\* outputs of the routing function of node n that its allow-list lacks
BadRoutes(p, n, snap) ==
    {k \in Router(p, n, snap) : k \notin DOMAIN AllowList(p, n)}

\* targets node n contributes to the next frontier
NextFrontier(p, ran, snap) ==
    LET Targets(n) ==
            {e[2] : e \in {e \in Graph(p).edges : e[1] = n}}
              \cup {AllowList(p, n)[k]
                       : k \in Router(p, n, snap) \cap DOMAIN AllowList(p, n)}
    IN UNION {Targets(n) : n \in ran}

\* ======================================================== checkpoint store
Put_LatestOnly(st, t, k, snap, fr) ==
    (<<t, k>> :> [snapshot |-> snap, frontier |-> fr])
      @@ [d \in {d \in DOMAIN st : d[1] # t} |-> st[d]]

Put(st, t, k, snap, fr) ==
    (<<t, k>> :> [snapshot |-> snap, frontier |-> fr]) @@ st

Indexes(st, t) == {d[2] : d \in {d \in DOMAIN st : d[1] = t}}

LatestIndex(st, t) ==
    CHOOSE k \in Indexes(st, t) : \A j \in Indexes(st, t) : j <= k

GetLatest(st, t) == st[<<t, LatestIndex(st, t)>>]

\* ======================================================== execution engine
VARIABLES
    prog,        \* the tutorial whose compiled graph is run
    initial,     \* thread -> the initial state given to invoke
    status,      \* thread -> Idle, Running, Completed, Failed, Suspended
    snapshot,    \* thread -> state snapshot at the last superstep boundary
    frontier,    \* thread -> node names scheduled for the current superstep
    step,        \* thread -> number of supersteps completed
    view,        \* thread -> node started this superstep -> its state dict
    updates,     \* thread -> completions registered this superstep
    failure,     \* thread -> error that ended the run, or "none"
    store,       \* the checkpoint store
    trace,       \* thread -> completion events so far: [step, node, update]
    suspendedAt, \* thread -> superstep counts at which the run was suspended
    wrap,        \* the with_retry wrapper a node is executing (12)
    nested,      \* the run of the compiled subgraph a node has invoked (09)
    gather       \* the asyncio.gather call of concurrent_operations_node (19)

vars == <<prog, initial, status, snapshot, frontier, step, view, updates,
          failure, store, trace, suspendedAt, wrap, nested, gather>>

engineVars == <<prog, initial, status, snapshot, frontier, step, view, updates,
                failure, store, trace, suspendedAt>>

\* no wrapper call is under way
WrapIdle == Wrapper(0, <<1, 1>>, 0, << >>, << >>)

\* no nested run is under way
NestedIdle ==
    [status |-> "Idle", graph |-> "none", snapshot |-> << >>, frontier |-> {},
     step |-> 0, trace |-> << >>]

Started(t) == DOMAIN view[t]

Finished(t) == {updates[t][i].node : i \in 1..Len(updates[t])}

AtBoundary(t) == view[t] = << >> /\ updates[t] = << >>

Init ==
    /\ prog \in Programs
    \* the initial state each thread's first invoke is given
    /\ initial \in (IF prog = "17" THEN Initial_17
                    ELSE {[t \in Threads(prog) |-> s0] : s0 \in Graph(prog).initial})
    /\ status = [t \in Threads(prog) |-> "Idle"]
    /\ snapshot = initial
    /\ frontier = [t \in Threads(prog) |-> {Graph(prog).entry}]
    /\ step = [t \in Threads(prog) |-> 0]
    /\ view = [t \in Threads(prog) |-> << >>]
    /\ updates = [t \in Threads(prog) |-> << >>]
    /\ failure = [t \in Threads(prog) |-> "none"]
    /\ store = << >>
    /\ trace = [t \in Threads(prog) |-> << >>]
    /\ suspendedAt = [t \in Threads(prog) |-> {}]
    /\ wrap = WrapIdle
    /\ nested = NestedIdle
    /\ gather = [pc |-> "idle"]

\* invoke(initial_state, config): Idle -> Running
Invoke(t) ==
    /\ status[t] = "Idle"
    /\ status' = [status EXCEPT ![t] = "Running"]
    /\ UNCHANGED <<prog, initial, snapshot, frontier, step, view, updates,
                   failure, store, trace, suspendedAt, wrap, nested, gather>>

\* fan-out: a frontier node starts on the pre-superstep snapshot, by value
StartNode(t, n) ==
    /\ status[t] = "Running"
    /\ n \in frontier[t] \ {END}
    /\ END \notin frontier[t]
    /\ n \notin Started(t)
    /\ prog = "05" => snapshot[t].iterations < MaxIterations_05
    /\ view' = [view EXCEPT ![t] = (n :> snapshot[t]) @@ view[t]]
    /\ UNCHANGED <<prog, initial, status, snapshot, frontier, step, updates,
                   failure, store, trace, suspendedAt, wrap, nested, gather>>

\* a started node returns its partial update; the completion is registered
\* (no node of the tutorials lets an exception escape to the engine).
\* robust_operation of 12 runs the with_retry wrapper and subgraph_node of 09
\* invokes a compiled subgraph: they return when that has ended.
\* dependency_resolver of 16 iterates a set, whose order the program does
\* not fix.
FinishNode(t, n) ==
    /\ status[t] = "Running"
    /\ n \in Started(t) \ Finished(t)
    /\ IF prog = "12" /\ n = "robust_operation"
       THEN wrap.pc \in {"returned", "raised"} /\ wrap' = WrapIdle
       ELSE UNCHANGED wrap
    /\ IF prog = "09" /\ n = "subgraph_node"
       THEN nested.status = "Completed" /\ nested' = NestedIdle
       ELSE UNCHANGED nested
    /\ \E call \in (IF prog = "12" /\ n = "robust_operation"
                    THEN {robust_operation_node_12(view[t][n], wrap)}
                    ELSE IF prog = "09" /\ n = "subgraph_node"
                    THEN {node_with_subgraph_09(view[t][n], nested.snapshot)}
                    ELSE IF prog = "16" /\ n = "dependency_resolver"
                    THEN {dependency_resolver_16(view[t][n], ord)
                            : ord \in IterationOrders_16}
                    ELSE {NodeCall(prog, n, view[t][n])}) :
        /\ updates' = [updates EXCEPT
                          ![t] = Append(@, [node |-> n, update |-> call.ret,
                                            error |-> "none"])]
        /\ view' = [view EXCEPT ![t] = (n :> call.state) @@ view[t]]
        /\ trace' = [trace EXCEPT
                        ![t] = Append(@, [step |-> step[t], node |-> n,
                                          update |-> call.ret])]
    /\ UNCHANGED <<prog, initial, status, snapshot, frontier, step, failure,
                   store, suspendedAt, gather>>

Barrier_MergesThenFails(t) ==
    /\ status[t] = "Running"
    /\ frontier[t] # {}
    /\ END \notin frontier[t]
    /\ Finished(t) = frontier[t]
    /\ LET merged == Apply(prog, snapshot[t], updates[t])
           nodeFailed == \E i \in 1..Len(updates[t]) : updates[t][i].error # "none"
           conflict == ConflictChannels(prog, updates[t]) # {}
           misrouted == \E n \in frontier[t] : BadRoutes(prog, n, merged) # {}
           next == NextFrontier(prog, frontier[t], merged)
       IN IF nodeFailed \/ conflict \/ misrouted
          THEN /\ status' = [status EXCEPT ![t] = "Failed"]
               /\ failure' = [failure EXCEPT
                     ![t] = IF nodeFailed THEN "NodeFailure"
                            ELSE IF conflict THEN "ConflictError"
                            ELSE "RoutingError"]
               /\ snapshot' = [snapshot EXCEPT ![t] = merged]
               /\ UNCHANGED <<frontier, step, store>>
          ELSE /\ snapshot' = [snapshot EXCEPT ![t] = merged]
               /\ frontier' = [frontier EXCEPT ![t] = next]
               /\ step' = [step EXCEPT ![t] = @ + 1]
               /\ store' = Put(store, t, step[t] + 1, merged, next)
               /\ UNCHANGED <<status, failure>>
    /\ view' = [view EXCEPT ![t] = << >>]
    /\ updates' = [updates EXCEPT ![t] = << >>]
    /\ UNCHANGED <<prog, initial, trace, suspendedAt, wrap, nested, gather>>

\* barrier, merge, routing and checkpoint of one superstep
Barrier(t) ==
    /\ status[t] = "Running"
    /\ frontier[t] # {}
    /\ END \notin frontier[t]
    /\ Finished(t) = frontier[t]
    /\ LET merged == Apply(prog, snapshot[t], updates[t])
           nodeFailed == \E i \in 1..Len(updates[t]) : updates[t][i].error # "none"
           conflict == ConflictChannels(prog, updates[t]) # {}
           misrouted == \E n \in frontier[t] : BadRoutes(prog, n, merged) # {}
           next == NextFrontier(prog, frontier[t], merged)
       IN IF nodeFailed \/ conflict \/ misrouted
          THEN /\ status' = [status EXCEPT ![t] = "Failed"]
               /\ failure' = [failure EXCEPT
                     ![t] = IF nodeFailed THEN "NodeFailure"
                            ELSE IF conflict THEN "ConflictError"
                            ELSE "RoutingError"]
               /\ UNCHANGED <<snapshot, frontier, step, store>>
          ELSE /\ snapshot' = [snapshot EXCEPT ![t] = merged]
               /\ frontier' = [frontier EXCEPT ![t] = next]
               /\ step' = [step EXCEPT ![t] = @ + 1]
               /\ store' = Put(store, t, step[t] + 1, merged, next)
               /\ UNCHANGED <<status, failure>>
    /\ view' = [view EXCEPT ![t] = << >>]
    /\ updates' = [updates EXCEPT ![t] = << >>]
    /\ UNCHANGED <<prog, initial, trace, suspendedAt, wrap, nested, gather>>

\* the frontier is the terminal marker: Running -> Completed
Complete(t) ==
    /\ status[t] = "Running"
    /\ frontier[t] = {END}
    /\ status' = [status EXCEPT ![t] = "Completed"]
    /\ UNCHANGED <<prog, initial, snapshot, frontier, step, view, updates,
                   failure, store, trace, suspendedAt, wrap, nested, gather>>

\* the caller stops the run at a superstep boundary: Running -> Suspended
Suspend(t) ==
    /\ status[t] = "Running"
    /\ Resumes(prog, t)
    /\ AtBoundary(t)
    /\ status' = [status EXCEPT ![t] = "Suspended"]
    /\ suspendedAt' = [suspendedAt EXCEPT ![t] = @ \cup {step[t]}]
    /\ UNCHANGED <<prog, initial, snapshot, frontier, step, view, updates,
                   failure, store, trace, wrap, nested, gather>>

Resume_FromEntry(t) ==
    /\ status[t] \in {"Suspended", "Completed"}
    /\ Resumes(prog, t)
    /\ IF Indexes(store, t) # {}
       THEN /\ snapshot' = [snapshot EXCEPT ![t] = GetLatest(store, t).snapshot]
            /\ step' = [step EXCEPT ![t] = LatestIndex(store, t)]
       ELSE /\ snapshot' = [snapshot EXCEPT ![t] = initial[t]]
            /\ step' = [step EXCEPT ![t] = 0]
    /\ frontier' = [frontier EXCEPT ![t] = {Graph(prog).entry}]
    /\ status' = [status EXCEPT ![t] = "Running"]
    /\ UNCHANGED <<prog, initial, view, updates, failure, store, trace,
                   suspendedAt, wrap, nested, gather>>

\* invoke(None, config): reload the thread's latest checkpoint and re-enter
\* Running with its frontier; a thread without checkpoint starts over
Resume(t) ==
    /\ status[t] \in {"Suspended", "Completed"}
    /\ Resumes(prog, t)
    /\ IF Indexes(store, t) # {}
       THEN /\ snapshot' = [snapshot EXCEPT ![t] = GetLatest(store, t).snapshot]
            /\ frontier' = [frontier EXCEPT ![t] = GetLatest(store, t).frontier]
            /\ step' = [step EXCEPT ![t] = LatestIndex(store, t)]
       ELSE /\ snapshot' = [snapshot EXCEPT ![t] = initial[t]]
            /\ frontier' = [frontier EXCEPT ![t] = {Graph(prog).entry}]
            /\ step' = [step EXCEPT ![t] = 0]
    /\ status' = [status EXCEPT ![t] = "Running"]
    /\ UNCHANGED <<prog, initial, view, updates, failure, store, trace,
                   suspendedAt, wrap, nested, gather>>

\* stream(initial_state): the events yielded so far, one per completion (node
\* name, superstep index, partial update), then the terminal event
Stream(t) ==
    trace[t] \o (IF status[t] = "Completed"
                 THEN <<[step |-> step[t], node |-> END, update |-> << >>]>>
                 ELSE << >>)

\* ---------------------------------------- the with_retry wrapper at work
MaxOverrun == 2

\* robust_operation_node calls execute()
Execute(t) ==
    /\ status[t] = "Running"
    /\ \E n \in Started(t) \ Finished(t) :
          /\ prog = "12" /\ n = "robust_operation"
          /\ wrap.pc = "idle"
          /\ wrap' = with_retry_call_12(execute_12(view[t][n]))
    /\ UNCHANGED <<engineVars, nested, gather>>

\* a second passes while the wrapped function runs
WrapTick ==
    /\ wrap.pc = "calling"
    /\ LET timeouts == wrap.timeouts
           LongestTimeout ==
               IF timeouts = << >> THEN 0
               ELSE CHOOSE x \in {timeouts[i] : i \in 1..Len(timeouts)} :
                       \A i \in 1..Len(timeouts) : timeouts[i] <= x
       IN wrap.elapsed < LongestTimeout + MaxOverrun
    /\ wrap' = [wrap EXCEPT !.elapsed = @ + 1]
    /\ UNCHANGED <<engineVars, nested, gather>>

\* the wrapped function returns or raises (a function that hangs does not)
WrapEnd ==
    /\ wrap.pc = "calling"
    /\ wrap.plan[wrap.calls] # "hang"
    /\ wrap' = with_retry_end_12(wrap)
    /\ UNCHANGED <<engineVars, nested, gather>>

\* time.sleep(delay) is over
WrapWake ==
    /\ wrap.pc = "sleeping"
    /\ wrap' = with_retry_wake_12(wrap)
    /\ UNCHANGED <<engineVars, nested, gather>>

\* ------------------------------------------------ the nested run at work
\* node_with_subgraph compiles the subgraph and invokes it on subgraph_state
NestedInvoke(t) ==
    /\ status[t] = "Running"
    /\ \E n \in Started(t) \ Finished(t) :
          /\ prog = "09" /\ n = "subgraph_node"
          /\ nested.status = "Idle"
          /\ \E s0 \in Graph("09sub").initial :
                nested' = [status |-> "Running", graph |-> "09sub", snapshot |-> s0,
                           frontier |-> {Graph("09sub").entry}, step |-> 0,
                           trace |-> << >>]
    /\ UNCHANGED <<engineVars, wrap, gather>>

\* one superstep of the nested run: the frontier runs on the nested snapshot,
\* the updates are merged and the next frontier is routed
NestedStep ==
    /\ nested.status = "Running"
    /\ END \notin nested.frontier
    /\ \E ord \in [1..Cardinality(nested.frontier) -> nested.frontier] :
          /\ \A i, j \in DOMAIN ord : ord[i] = ord[j] => i = j
          /\ LET upds == [i \in DOMAIN ord |->
                            [node |-> ord[i],
                             update |-> NodeCall(nested.graph, ord[i],
                                                 nested.snapshot).ret,
                             error |-> "none"]]
                 merged == Apply(nested.graph, nested.snapshot, upds)
             IN nested' = [nested EXCEPT
                              !.snapshot = merged,
                              !.frontier = NextFrontier(nested.graph,
                                                        nested.frontier, merged),
                              !.step = @ + 1,
                              !.trace = @ \o ord]
    /\ UNCHANGED <<engineVars, wrap, gather>>

\* the nested frontier is the terminal marker: the nested invoke returns
NestedComplete ==
    /\ nested.status = "Running"
    /\ nested.frontier = {END}
    /\ nested' = [nested EXCEPT !.status = "Completed"]
    /\ UNCHANGED <<engineVars, wrap, gather>>

Next ==
    \/ \E t \in Threads(prog) : Invoke(t)
    \/ \E t \in Threads(prog) : \E n \in Graph(prog).nodes : StartNode(t, n)
    \/ \E t \in Threads(prog) : \E n \in Graph(prog).nodes : FinishNode(t, n)
    \/ \E t \in Threads(prog) : Barrier(t)
    \/ \E t \in Threads(prog) : Complete(t)
    \/ \E t \in Threads(prog) : Suspend(t)
    \/ \E t \in Threads(prog) : Resume(t)
    \/ \E t \in Threads(prog) : Execute(t)
    \/ WrapTick
    \/ WrapEnd
    \/ WrapWake
    \/ \E t \in Threads(prog) : NestedInvoke(t)
    \/ NestedStep
    \/ NestedComplete

Spec == Init /\ [][Next]_vars

\* the engine's own scheduling runs an invoked graph until it stops
FairSpec == Spec /\ WF_vars(Next)

\* ------------------------------------------------- the barrier in isolation
\* One superstep of the parallel pattern of 14 stands at its barrier; the two
\* completions registered for node_b and node_c are drawn from bounded sets
\* (a partial update over two channels, or a node failure).
BarrierInit ==
    LET BarrierResults == {<<S("x")>>, <<S("x"), S("y")>>, <<S("x"), S("z")>>}
        BarrierPatterns == {S("Parallel"), S("Other")}
        BarrierUpdates ==
            {[results |-> r] : r \in BarrierResults}
              \cup {[pattern_used |-> q] : q \in BarrierPatterns}
              \cup {[results |-> r, pattern_used |-> q]
                       : r \in BarrierResults, q \in BarrierPatterns}
        BarrierCompletions(n, snap) ==
            {[node |-> n, update |-> u, error |-> "none"]
               : u \in BarrierUpdates \cup {NodeCall("14par", n, snap).ret}}
              \cup {[node |-> n, update |-> << >>, error |-> e]
                       : e \in {"none", "ValueError"}}
    IN
    \E s0 \in Initial_14("Parallel") :
       LET t == DefaultThread
           a == node_a_14(s0).ret
           s1 == Apply("14par", s0, <<[node |-> "node_a", update |-> a, error |-> "none"]>>)
           fr == {"node_b", "node_c"}
       IN
       \E e1 \in BarrierCompletions("node_b", s1), e2 \in BarrierCompletions("node_c", s1) :
          /\ prog = "14par"
          /\ initial = [x \in {t} |-> s0]
          /\ status = [x \in {t} |-> "Running"]
          /\ snapshot = [x \in {t} |-> s1]
          /\ frontier = [x \in {t} |-> fr]
          /\ step = [x \in {t} |-> 1]
          /\ view = [x \in {t} |-> [n \in fr |-> s1]]
          /\ updates = [x \in {t} |-> <<e1, e2>>]
          /\ failure = [x \in {t} |-> "none"]
          /\ store = Put(<< >>, t, 1, s1, fr)
          /\ trace = [x \in {t} |->
                        <<[step |-> 0, node |-> "node_a", update |-> a],
                          [step |-> 1, node |-> "node_b", update |-> e1.update],
                          [step |-> 1, node |-> "node_c", update |-> e2.update]>>]
          /\ suspendedAt = [x \in {t} |-> {}]
          /\ wrap = WrapIdle
          /\ nested = NestedIdle
          /\ gather = [pc |-> "idle"]

BarrierNext == Barrier(DefaultThread)

BarrierSpec == BarrierInit /\ [][BarrierNext]_vars

\* --------------------------------------------------- the merge in isolation
\* One superstep of a graph over the state schema of 15 or 20 stands at its
\* barrier: up to MaxWriters nodes of one frontier have registered their
\* completions, each contributing a list to the messages channel or omitting
\* the channel.
MaxWriters == 3

\* MergeOrders: the orders in which distinct nodes of p can register their
\* completions
MergeInit ==
    \E p \in {"15", "20"} :
    LET MergeUpdates ==
            {[messages |-> m]
               : m \in {<< >>, <<S("m1")>>, <<S("m2")>>, <<S("m1"), S("m2")>>}}
              \cup {<< >>}
        MergeOrders ==
            UNION {{ord \in [1..n -> Graph(p).nodes]
                      : \A i, j \in 1..n : ord[i] = ord[j] => i = j}
                     : n \in 1..MaxWriters}
        MergeBase ==
            {s \in Graph(p).initial :
                IF p = "15" THEN s.task_id = S("TASK-001")
                ELSE s.user_input = <<"a", "B">>}
    IN
    \E base \in MergeBase, prev \in {<< >>, <<S("m0")>>} :
    \E ord \in MergeOrders :
    \E upd \in [1..Len(ord) -> MergeUpdates] :
       LET s0 == [base EXCEPT !.messages = prev]
           fr == {ord[i] : i \in 1..Len(ord)}
           T == Threads(p)
       IN /\ prog = p
          /\ initial = [t \in T |-> s0]
          /\ status = [t \in T |-> "Running"]
          /\ snapshot = [t \in T |-> s0]
          /\ frontier = [t \in T |-> fr]
          /\ step = [t \in T |-> 0]
          /\ view = [t \in T |-> [n \in fr |-> s0]]
          /\ updates = [t \in T |->
                          [i \in 1..Len(ord) |->
                              [node |-> ord[i], update |-> upd[i], error |-> "none"]]]
          /\ failure = [t \in T |-> "none"]
          /\ store = << >>
          /\ trace = [t \in T |->
                        [i \in 1..Len(ord) |->
                            [step |-> 0, node |-> ord[i], update |-> upd[i]]]]
          /\ suspendedAt = [t \in T |-> {}]
          /\ wrap = WrapIdle
          /\ nested = NestedIdle
          /\ gather = [pc |-> "idle"]

MergeNext == \E t \in Threads(prog) : Barrier(t)

MergeSpec == MergeInit /\ [][MergeNext]_vars

\* ------------------------------------------ the retry wrapper in isolation
\* with_retry(max_retries, backoff_multiplier, initial_delay) around a
\* function under a stack of with_timeout decorators; what each call of the
\* function does (return, raise, hang) is drawn, how long it takes is left
\* to WrapTick.
MaxMult == 2

MaxTimeout == 2

WrapInit ==
    /\ \E n \in 0..MaxRetry, m \in 1..MaxMult, d \in 1..2 :
       \E ts \in {<< >>} \cup {<<x>> : x \in 1..MaxTimeout} :
       \E plan \in [1..(n + 1) -> {"return", "ValueError", "TimeoutError", "hang"}] :
          wrap = Wrapper(n, <<m, 1>>, d, ts, plan)
    /\ prog = "12"
    /\ initial \in {[t \in Threads("12") |-> s0]
                      : s0 \in {s \in Graph_12.initial :
                                  /\ s.input_data = << >> /\ s.retry_count = 0
                                  /\ s.max_retries = 0 /\ s.error = None}}
    /\ status = [t \in Threads(prog) |-> "Idle"]
    /\ snapshot = initial
    /\ frontier = [t \in Threads(prog) |-> {Graph(prog).entry}]
    /\ step = [t \in Threads(prog) |-> 0]
    /\ view = [t \in Threads(prog) |-> << >>]
    /\ updates = [t \in Threads(prog) |-> << >>]
    /\ failure = [t \in Threads(prog) |-> "none"]
    /\ store = << >>
    /\ trace = [t \in Threads(prog) |-> << >>]
    /\ suspendedAt = [t \in Threads(prog) |-> {}]
    /\ nested = NestedIdle
    /\ gather = [pc |-> "idle"]

\* the caller calls the decorated function
WrapCall ==
    /\ wrap.pc = "idle"
    /\ wrap' = with_retry_call_12(wrap)
    /\ UNCHANGED <<engineVars, nested, gather>>

WrapNext ==
    \/ WrapCall
    \/ WrapTick
    \/ WrapEnd
    \/ WrapWake



WrapperSpec == WrapInit /\ [][WrapNext]_vars

\* ============================================== harness: asyncio.gather
\* concurrent_operations_node of 19 called on its own, as main does: the
\* three operations it gathers complete in any order.
\* the node is called and awaits asyncio.gather(simulate_api_call(...),
\* simulate_database_query(...), simulate_file_operation(...)); the state is
\* main's dict or the dict a previous node returned (without completed_tasks)
GatherCall ==
    /\ gather.pc = "idle"
    /\ \E rs \in {[i \in 1..k |-> S("r")] : k \in 0..3},
          c \in 0..MaxNum,
          keys \in {{"async_results", "processing_times"},
                    {"input_data", "async_results", "processing_times",
                     "concurrent_tasks", "completed_tasks"}} :
          LET full == [input_data |-> S("Test data"), async_results |-> rs,
                       processing_times |-> << >>, concurrent_tasks |-> 0,
                       completed_tasks |-> c]
              awaited ==
                  <<S("Concurrent-1") \o S(": API call completed in ")
                       \o S("0.4") \o S("s"),
                    S("Database query '") \o S("SELECT * FROM orders")
                       \o S("' completed in ") \o S("0.3") \o S("s"),
                    S("File operation '") \o S("output.txt")
                       \o S("' completed in ") \o S("0.2") \o S("s")>>
          IN gather' = [pc |-> "gathering",
                        state |-> [k \in keys |-> full[k]],
                        awaited |-> awaited,
                        pending |-> 1..Len(awaited),
                        done |-> << >>]
    /\ UNCHANGED <<engineVars, wrap, nested>>

\* the sleep of one gathered operation is over and it returns its result
GatherTaskDone(i) ==
    /\ gather.pc = "gathering"
    /\ i \in gather.pending
    /\ gather' = [gather EXCEPT !.pending = @ \ {i},
                                !.done = Append(@, <<i, gather.awaited[i]>>)]
    /\ UNCHANGED <<engineVars, wrap, nested>>

\* every gathered operation is done: the await returns and the node goes on
\* to its return statement
GatherReturn ==
    /\ gather.pc = "gathering"
    /\ gather.pending = {}
    /\ gather' = [pc |-> "returned", state |-> gather.state, done |-> gather.done,
                  call |-> concurrent_operations_node_19(
                              gather.state, asyncio_gather_19(gather.done))]
    /\ UNCHANGED <<engineVars, wrap, nested>>

GatherInit ==
    /\ gather = [pc |-> "idle"]
    /\ prog = "19"
    /\ initial = << >>
    /\ status = << >>
    /\ snapshot = << >>
    /\ frontier = << >>
    /\ step = << >>
    /\ view = << >>
    /\ updates = << >>
    /\ failure = << >>
    /\ store = << >>
    /\ trace = << >>
    /\ suspendedAt = << >>
    /\ wrap = WrapIdle
    /\ nested = NestedIdle

GatherNext ==
    \/ GatherCall
    \/ \E i \in 1..3 : GatherTaskDone(i)
    \/ GatherReturn

GatherSpec == GatherInit /\ [][GatherNext]_vars

\* ================================================================== claims
TraceNodes(t) == {trace[t][i].node : i \in 1..Len(trace[t])}

\* ---- C1
StaticPrograms == {"01", "02", "14seq"}

Chain(p) ==
    CASE p = "01" -> <<"node_a", "node_b">>
      [] p = "02" -> <<"input", "process", "output">>
      [] p = "14seq" -> <<"node_a", "node_b", "node_c">>

C1_InOrder ==
    prog \in StaticPrograms =>
        LET t == DefaultThread
            c == Chain(prog)
        IN /\ Len(trace[t]) <= Len(c)
           /\ \A i \in 1..Len(trace[t]) :
                 trace[t][i].node = c[i] /\ trace[t][i].step = i - 1
           /\ Cardinality(Started(t)) <= 1
           /\ status[t] # "Failed"
           /\ status[t] = "Completed" => Len(trace[t]) = Len(c)

C1_Done == prog \notin StaticPrograms \/ status[DefaultThread] = "Completed"

\* C1: a graph with only static edges (01, 02, 14 sequential) executes each
\* node exactly once, one node per superstep, in the order of its edge chain,
\* and the run then reaches Completed.
C1_StaticChain == []C1_InOrder /\ <>C1_Done

C1_Witness ==
    /\ prog = "14seq"
    /\ status[DefaultThread] = "Completed"
    /\ Len(trace[DefaultThread]) = 3

\* ---- C2
PathNodes == {"path_a_processor", "path_b_processor", "path_c_processor"}

PathChannels == {"path_a_result", "path_b_result", "path_c_result"}

\* C2: in 04 the three path processors all run in the superstep right after
\* start; collect starts only after all three have finished and their
\* updates are merged, so it reads all three path_*_result values.
C2_FanOutThenCollect ==
    prog = "04" =>
        LET t == DefaultThread IN
        /\ status[t] # "Failed"
        /\ \A i \in 1..Len(trace[t]) :
              trace[t][i].node \in PathNodes => trace[t][i].step = 1
        /\ step[t] = 1 => frontier[t] = PathNodes
        /\ step[t] >= 2 => PathNodes \subseteq TraceNodes(t)
        /\ "collect" \in Started(t) =>
              /\ step[t] = 2
              /\ PathNodes \subseteq TraceNodes(t)
              /\ \A ch \in PathChannels :
                    /\ view[t]["collect"][ch] # << >>
                    /\ view[t]["collect"][ch] = snapshot[t][ch]
        /\ status[t] = "Completed" => Len(snapshot[t].all_results) = 3

C2_Witness ==
    /\ prog = "04"
    /\ "collect" \in Started(DefaultThread)
    /\ initial[DefaultThread].input_data = <<"a", "B">>

\* ---- C3
C3_Merged(init) ==
    [init EXCEPT !.path_a_result = S("PATH_A: ") \o Upper(init.input_data),
                 !.path_b_result = S("PATH_B: ") \o Lower(init.input_data),
                 !.path_c_result = S("PATH_C: ") \o Reverse(init.input_data)]

\* C3: every path processor of 04 reads the pre-superstep snapshot, in which
\* no path_*_result is set, whatever the order in which the three start and
\* finish; the snapshot merged from their updates is the same for every order.
C3_SameSnapshot ==
    prog = "04" =>
        LET t == DefaultThread IN
        /\ status[t] # "Failed"
        /\ \A n \in Started(t) \cap PathNodes :
              /\ view[t][n] = snapshot[t]
              /\ \A ch \in PathChannels : view[t][n][ch] = << >>
        /\ step[t] = 2 => snapshot[t] = C3_Merged(initial[t])

C3_Witness ==
    /\ prog = "04"
    /\ step[DefaultThread] = 2
    /\ trace[DefaultThread][2].node = "path_c_processor"
    /\ trace[DefaultThread][4].node = "path_a_processor"
    /\ initial[DefaultThread].input_data = <<"a", "B">>

\* ---- C4
\* two completions of superstep k write different values to one channel
\* that has the overwrite reducer
DisagreeAt(t, k) ==
    \E i, j \in 1..Len(trace[t]) :
        /\ trace[t][i].step = k /\ trace[t][j].step = k
        /\ \E ch \in DOMAIN trace[t][i].update \cap DOMAIN trace[t][j].update :
              /\ Reducer(prog, ch) = "overwrite"
              /\ trace[t][i].update[ch] # trace[t][j].update[ch]

\* two completions of superstep k write the same value to channel ch
AgreeAt(t, k, ch) ==
    \E i, j \in 1..Len(trace[t]) :
        /\ i # j /\ trace[t][i].step = k /\ trace[t][j].step = k
        /\ ch \in DOMAIN trace[t][i].update \cap DOMAIN trace[t][j].update
        /\ trace[t][i].update[ch] = trace[t][j].update[ch]

\* C4: a superstep fails with ConflictError exactly when two of its nodes
\* wrote different values to one overwrite channel; when the two nodes wrote
\* equal values the superstep completes and the value is in the new snapshot.
C4_ConflictIffDifferent ==
    \A t \in Threads(prog) :
        /\ failure[t] = "ConflictError" <=>
              (AtBoundary(t) /\ status[t] = "Failed" /\ DisagreeAt(t, step[t]))
        /\ \A i \in 1..Len(trace[t]) :
              \A ch \in DOMAIN trace[t][i].update :
                 LET k == trace[t][i].step IN
                 (AgreeAt(t, k, ch) /\ ~DisagreeAt(t, k) /\ AtBoundary(t)
                    /\ failure[t] # "NodeFailure" /\ Reducer(prog, ch) = "overwrite")
                 => /\ step[t] > k
                    /\ <<t, k + 1>> \in DOMAIN store
                    /\ store[<<t, k + 1>>].snapshot[ch] = trace[t][i].update[ch]

C4_Witness ==
    LET t == DefaultThread IN
    /\ AtBoundary(t)
    /\ step[t] = 2
    /\ AgreeAt(t, 1, "results")
    /\ status[t] = "Running"
    /\ snapshot[t].results = trace[t][2].update.results

\* ---- C5
\* an uninterrupted run of a chain: no checkpoint store, no suspension
RECURSIVE RunFrom(_, _, _, _)
RunFrom(p, snap, fr, fuel) ==
    IF fr = {END} \/ fr = {} \/ fuel = 0 THEN snap
    ELSE LET n == CHOOSE x \in fr : TRUE
             upds == <<[node |-> n, update |-> NodeCall(p, n, snap).ret,
                        error |-> "none"]>>
             merged == Apply(p, snap, upds)
         IN RunFrom(p, merged, NextFrontier(p, fr, merged), fuel - 1)

Uninterrupted(p, s0) == RunFrom(p, s0, {Graph(p).entry}, Cardinality(Graph(p).nodes))

\* C5: a run of the three-step chain of 07 or 17 that was suspended after K
\* supersteps (any K in 0..3, any number of times) and resumed from the
\* thread's latest checkpoint completes with the final snapshot of the
\* uninterrupted run from the same initial state.
C5_ResumeSameFinal ==
    \A t \in Threads(prog) :
        (prog \in {"07", "17"} /\ status[t] = "Completed")
           => snapshot[t] = Uninterrupted(prog, initial[t])

C5_Witness ==
    /\ prog = "07"
    /\ status["workflow-001"] = "Completed"
    /\ suspendedAt["workflow-001"] = 0..3
    /\ initial["workflow-001"].data = S("Initial")

\* ---- C6
C6_OnePerSuperstep ==
    \A t \in Threads(prog) : Indexes(store, t) = 1..step[t]

C6_AppendOnly ==
    /\ \A d \in DOMAIN store : d \in DOMAIN store' /\ store'[d] = store[d]
    /\ \A t \in Threads(prog) :
          /\ \A k \in Indexes(store', t) \ Indexes(store, t) :
                \A j \in Indexes(store, t) : j < k
          /\ step'[t] = step[t] + 1 =>
                Indexes(store', t) = Indexes(store, t) \cup {step[t] + 1}

\* C6: one checkpoint is written per completed superstep, the indexes
\* written for a thread are strictly increasing, and an entry once written
\* is never changed or removed.
C6_CheckpointLog == []C6_OnePerSuperstep /\ [][C6_AppendOnly]_vars

C6_Witness ==
    /\ prog = "07"
    /\ step["workflow-001"] = 3
    /\ Indexes(store, "workflow-001") = {1, 2, 3}
    /\ suspendedAt["workflow-001"] # {}

\* ---- C7
\* the updates of the completions of supersteps before k, in trace order
RECURSIVE Replay(_, _, _, _)
Replay(p, snap, events, k) ==
    IF k = 0 THEN snap
    ELSE LET prev == Replay(p, snap, events, k - 1)
             mine == SelectSeq(events, LAMBDA e : e.step = k - 1)
         IN Apply(p, prev, [i \in 1..Len(mine) |->
                              [node |-> mine[i].node, update |-> mine[i].update,
                               error |-> "none"]])

\* C7: a Failed run leaves the thread's latest checkpoint at the last
\* superstep that completed, and the state holds the merges of the completed
\* supersteps only: nothing of the failed superstep is merged.
C7_FailedKeepsLastGood ==
    \A t \in Threads(prog) :
        status[t] = "Failed" =>
            /\ snapshot[t] = Replay(prog, initial[t], trace[t], step[t])
            /\ \E i \in 1..Len(trace[t]) : trace[t][i].step = step[t]
            /\ step[t] >= 1 =>
                  /\ Indexes(store, t) # {}
                  /\ LatestIndex(store, t) = step[t]
                  /\ GetLatest(store, t).snapshot = snapshot[t]
                  /\ GetLatest(store, t).frontier = frontier[t]

C7_Witness ==
    LET t == DefaultThread IN
    /\ status[t] = "Failed"
    /\ failure[t] = "ConflictError"
    /\ trace[t][2].update = node_b_14(snapshot[t]).ret
    /\ trace[t][3].update = node_c_14(snapshot[t]).ret
    /\ LatestIndex(store, t) = 1

\* ---- C8
ExpectedTask(t) ==
    IF t = "user-001" THEN "Process user 1's request" ELSE "Process user 2's request"

C8_OwnResultsOnly ==
    prog = "17" =>
        \A t \in Threads(prog) :
            /\ snapshot[t].user_id = S(t)
            /\ \A i \in 1..Len(snapshot[t].results) :
                  snapshot[t].results[i][2] = ExpectedTask(t)
            /\ status[t] = "Completed" => Len(snapshot[t].results) = 3

C8_NoInterference ==
    prog = "17" =>
        \A u \in Threads(prog) :
            step'[u] # step[u] \/ status'[u] # status[u] =>
                \A t \in Threads(prog) \ {u} :
                    /\ Indexes(store', t) = Indexes(store, t)
                    /\ \A k \in Indexes(store, t) :
                          store'[<<t, k>>] = store[<<t, k>>]
                    /\ snapshot'[t] = snapshot[t]

\* C8: in 17, under every interleaving of the user-001 and user-002 runs, a
\* step of one thread leaves the checkpoints and the snapshot of the other
\* unchanged, and each thread's snapshot holds only that user's results.
C8_ThreadsIndependent == []C8_OwnResultsOnly /\ [][C8_NoInterference]_vars

C8_Witness ==
    /\ prog = "17"
    /\ status["user-001"] = "Completed"
    /\ status["user-002"] = "Completed"
    /\ suspendedAt["user-001"] # {}
    /\ trace["user-001"][3].update.results # trace["user-002"][3].update.results

\* ---- C9
ExpectedHandler(number) == IF number % 2 = 0 THEN "even_handler" ELSE "odd_handler"

ExpectedPath(number) == IF number % 2 = 0 THEN S("even") ELSE S("odd")

\* C9: in 03, for every number, exactly one handler executes after start,
\* even_handler when number % 2 = 0 and odd_handler otherwise; the run ends
\* with path "even" or "odd" accordingly and processed = True.
C9_OneHandler ==
    prog = "03" =>
        LET t == DefaultThread
            number == initial[t].number
        IN /\ status[t] # "Failed"
           /\ Len(trace[t]) <= 2
           /\ Len(trace[t]) >= 1 => trace[t][1].node = "start"
           /\ Len(trace[t]) = 2 => trace[t][2].node = ExpectedHandler(number)
           /\ Started(t) \subseteq {"start", ExpectedHandler(number)}
           /\ step[t] = 1 => frontier[t] = {ExpectedHandler(number)}
           /\ step[t] = 2 => frontier[t] = {END}
           /\ status[t] = "Completed" =>
                 /\ Len(trace[t]) = 2
                 /\ snapshot[t].path = ExpectedPath(number)
                 /\ snapshot[t].processed = TRUE
                 /\ snapshot[t].number = number

C9_Witness ==
    /\ prog = "03"
    /\ status[DefaultThread] = "Completed"
    /\ initial[DefaultThread].number = 0 - 3
    /\ snapshot[DefaultThread].path = S("odd")

\* ---- C10
C10_SafeOperation ==
    prog = "06" =>
        LET t == DefaultThread IN
        \A i \in 1..Len(trace[t]) :
            (trace[t][i].node = "safe_operation" /\ trace[t][i].step < step[t]) =>
                LET u == trace[t][i].update
                    cp == store[<<t, trace[t][i].step + 1>>]
                    setError == "error" \in DOMAIN u /\ TruthyOpt(u.error)
                IN /\ cp.frontier = IF setError THEN {"error_handler"} ELSE {END}
                   /\ setError => cp.snapshot.error = u.error

C10_Validation ==
    prog = "20" =>
        LET t == "REQ-001" IN
        \A i \in 1..Len(trace[t]) :
            (trace[t][i].node = "input_validation" /\ trace[t][i].step < step[t]) =>
                LET u == trace[t][i].update
                    cp == store[<<t, trace[t][i].step + 1>>]
                IN /\ cp.snapshot.status = u.status
                   /\ cp.snapshot.errors = u.errors
                   /\ cp.frontier =
                        IF u.status = S("failed") \/ u.errors # << >>
                        THEN {"error_handler"} ELSE {"processing_node"}

\* C10: a routing function is evaluated on the snapshot merged in the
\* superstep of its source node: in 06 the edge after safe_operation leads to
\* error_handler exactly when safe_operation's update of that superstep set a
\* non-empty error; in 20 route_after_validation decides on the status and
\* errors input_validation wrote in that superstep.
C10_RoutesOnMerged == C10_SafeOperation /\ C10_Validation

C10_Witness ==
    /\ prog = "06"
    /\ status[DefaultThread] = "Completed"
    /\ initial[DefaultThread].error # None
    /\ initial[DefaultThread].retry_count = 1
    /\ Len(trace[DefaultThread]) = 1

\* ---- C11
\* the snapshot a thread had when superstep k began
SnapshotBefore(t, k) == IF k = 0 THEN initial[t] ELSE store[<<t, k>>].snapshot

\* C11: in 02, a channel that the partial update of a node omits has, after
\* the superstep of that node, the value it had before: process and output
\* omit user_input, which keeps its initial value, and output omits counter,
\* which keeps the value process gave it.
C11_OmittedKept ==
    prog = "02" =>
        LET t == DefaultThread IN
        /\ \A i \in 1..Len(trace[t]) :
              LET k == trace[t][i].step IN
              k < step[t] =>
                 \A ch \in DOMAIN initial[t] \ DOMAIN trace[t][i].update :
                    store[<<t, k + 1>>].snapshot[ch] = SnapshotBefore(t, k)[ch]
        /\ \A i \in 1..Len(trace[t]) :
              /\ trace[t][i].node \in {"process", "output"} =>
                    "user_input" \notin DOMAIN trace[t][i].update
              /\ trace[t][i].node = "output" =>
                    "counter" \notin DOMAIN trace[t][i].update
        /\ \A k \in 2..step[t] :
              store[<<t, k>>].snapshot.user_input = initial[t].user_input
        /\ step[t] = 3 =>
              /\ store[<<t, 3>>].snapshot.counter = store[<<t, 2>>].snapshot.counter
              /\ snapshot[t].counter = 1

C11_Witness ==
    /\ prog = "02"
    /\ status[DefaultThread] = "Completed"
    /\ initial[DefaultThread].user_input = <<"a", "B">>
    /\ snapshot[DefaultThread].user_input = <<"a", "B">>
    /\ snapshot[DefaultThread].counter = 1

\* ---- C12
\* the state dict a node was handed is, when the node has returned, still the
\* pre-superstep snapshot
HandedSnapshotKept(t) == \A n \in Finished(t) : view[t][n] = snapshot[t]

\* the snapshot at a superstep boundary is the merge of the returned updates
OnlyThroughMerge(t) ==
    (AtBoundary(t) /\ status[t] # "Failed") =>
        snapshot[t] = Replay(prog, initial[t], trace[t], step[t])

\* C12: no node execution changes the snapshot it was handed: when step_one
\* (07), node_a (14), task_a (16) or any other node has returned, the
\* processed_steps, results, resources and every other channel of the handed
\* snapshot are what they were before the node ran, and the state changes
\* only through the merge of the returned partial updates.
C12_NodeKeepsHandedSnapshot ==
    \A t \in Threads(prog) : HandedSnapshotKept(t) /\ OnlyThroughMerge(t)

\* ---- C13
\* the completions of superstep k, in the order they were registered
EventsOf(t, k) == SelectSeq(trace[t], LAMBDA e : e.step = k)

\* what a completion contributes to the messages channel
MessagesOf(e) == IF "messages" \in DOMAIN e.update THEN e.update.messages ELSE << >>

\* total length of the contributions of the first n completions
RECURSIVE ContributedLen(_, _)
ContributedLen(evs, n) ==
    IF n = 0 THEN 0 ELSE ContributedLen(evs, n - 1) + Len(MessagesOf(evs[n]))

\* C13: messages has the append reducer in 15 and 20; the merge of the
\* updates of the N nodes of one frontier gives a list whose length is the
\* previous length plus the lengths the N updates contribute, and it holds
\* the previous entries followed by the contributions in the order in which
\* the completions were registered.
C13_AppendInOrder ==
    prog \in {"15", "20"} =>
        \A t \in Threads(prog) :
            /\ (AtBoundary(t) /\ trace[t] # << >>) => status[t] = "Running" /\ step[t] = 1
            /\ \A k \in 0..(step[t] - 1) :
                  LET evs == EventsOf(t, k)
                      old == SnapshotBefore(t, k).messages
                      new == store[<<t, k + 1>>].snapshot.messages
                  IN /\ Len(new) = Len(old) + ContributedLen(evs, Len(evs))
                     /\ \A x \in 1..Len(old) : new[x] = old[x]
                     /\ \A i \in 1..Len(evs) :
                           \A x \in 1..Len(MessagesOf(evs[i])) :
                              new[Len(old) + ContributedLen(evs, i - 1) + x]
                                = MessagesOf(evs[i])[x]

C13_Witness ==
    /\ prog = "20"
    /\ step["REQ-001"] = 1
    /\ Len(trace["REQ-001"]) = 3
    /\ initial["REQ-001"].messages = <<S("m0")>>
    /\ snapshot["REQ-001"].messages = <<S("m0"), S("m2"), S("m1"), S("m2"), S("m1")>>

\* ---- C14
FailedCalls(k) == \A i \in 1..k : wrap.outcomes[i] # "return"

\* C14: with_retry(max_retries = n) calls the wrapped function at most n + 1
\* times; it returns at the first call that succeeds, having made no further
\* call, and raises the exception of the last call only when n + 1 calls
\* have failed; with two attempts allowed, a failure followed by a success
\* gives the caller the result after exactly 2 calls.
C14_RetryBound ==
    /\ wrap.calls <= wrap.max_retries + 1
    /\ wrap.pc \in {"calling", "sleeping"} =>
          /\ FailedCalls(Len(wrap.outcomes))
          /\ Len(wrap.outcomes) = IF wrap.pc = "calling" THEN wrap.calls - 1
                                  ELSE wrap.calls
    /\ wrap.pc = "returned" =>
          /\ Len(wrap.outcomes) = wrap.calls
          /\ wrap.outcomes[wrap.calls] = "return"
          /\ FailedCalls(wrap.calls - 1)
    /\ wrap.pc = "raised" =>
          /\ wrap.calls = wrap.max_retries + 1
          /\ Len(wrap.outcomes) = wrap.calls
          /\ FailedCalls(wrap.calls)
          /\ wrap.last_exception = wrap.outcomes[wrap.calls]
    /\ (wrap.max_retries = 1 /\ Len(wrap.outcomes) = 2
          /\ wrap.outcomes[1] # "return" /\ wrap.outcomes[2] = "return") =>
          wrap.pc = "returned" /\ wrap.calls = 2

C14_Witness ==
    /\ wrap.max_retries = 1
    /\ wrap.pc = "returned"
    /\ wrap.calls = 2
    /\ wrap.outcomes = <<"ValueError", "return">>

\* ---- C15
\* C15: a TimeoutError is not retried: once a call of the function wrapped
\* by with_retry has ended with TimeoutError, with_retry has raised it to
\* its caller and that call was the last one.
C15_TimeoutNotRetried ==
    \A k \in 1..Len(wrap.outcomes) :
        wrap.outcomes[k] = "TimeoutError" =>
            /\ wrap.calls = k
            /\ wrap.pc = "raised"
            /\ wrap.last_exception = "TimeoutError"

\* ---- C16
\* C16: a call through with_timeout(t) never runs longer than t: while the
\* call has not ended, no more than t seconds have passed since it started.
C16_EndsWithinTimeout ==
    (wrap.pc = "calling" /\ wrap.timeouts # << >>) =>
        wrap.elapsed <= wrap.timeouts[1]

\* ---- C17
Chain_08 == <<"node_a", "node_b", "node_c">>

C17_Events ==
    prog = "08" =>
        LET t == DefaultThread
            st == Stream(t)
        IN /\ Len(st) <= 4
           /\ \A i \in 1..Len(st) :
                 IF i <= 3
                 THEN /\ st[i].node = Chain_08[i]
                      /\ st[i].step = i - 1
                      /\ st[i].update = NodeCall("08", Chain_08[i],
                                                 SnapshotBefore(t, i - 1)).ret
                      /\ st[i].update.steps_completed
                           = [j \in 1..i |-> S(Chain_08[j])]
                 ELSE st[i].node = END /\ st[i].step = 3
           /\ status[t] = "Completed" <=> Len(st) = 4
           /\ \A n \in Started(t) \ Finished(t) :
                 \A i \in 1..Len(st) : st[i].node # n

C17_Extends ==
    prog = "08" =>
        LET t == DefaultThread IN
        /\ Len(Stream(t)') >= Len(Stream(t))
        /\ \A i \in 1..Len(Stream(t)) : Stream(t)'[i] = Stream(t)[i]

NestedPlan_09 == <<"step1", "step2">>

NestedResult_09 == <<"Preprocessed (step 2): ", "2", "0">>

C18_Nested ==
    prog = "09" =>
        LET t == DefaultThread IN
        /\ nested.status # "Idle" =>
              /\ status[t] = "Running"
              /\ step[t] = 1
              /\ "subgraph_node" \in Started(t) \ Finished(t)
              /\ "final_node" \notin Started(t)
              /\ nested.step = Len(nested.trace)
              /\ Len(nested.trace) <= 2
              /\ \A i \in 1..Len(nested.trace) : nested.trace[i] = NestedPlan_09[i]
        /\ nested.status = "Completed" =>
              /\ nested.trace = NestedPlan_09
              /\ nested.snapshot.value = 20
              /\ nested.snapshot.subgraph_result = NestedResult_09
        /\ \A i \in 1..Len(trace[t]) :
              trace[t][i].node = "subgraph_node" =>
                 trace[t][i].update.subgraph_outputs = <<NestedResult_09>>
        /\ "final_node" \in Started(t) =>
              /\ nested = NestedIdle
              /\ \E i \in 1..Len(trace[t]) : trace[t][i].node = "subgraph_node"
              /\ view[DefaultThread]["final_node"].subgraph_outputs
                   = <<NestedResult_09>>

C18_ReturnsWhenCompleted ==
    (/\ prog = "09"
     /\ "subgraph_node" \notin Finished(DefaultThread)
     /\ "subgraph_node" \in Finished(DefaultThread)')
       => nested.status = "Completed" /\ nested.trace = NestedPlan_09

\* C18: each execution of subgraph_node (09) runs the nested plan
\* step1 -> step2 to Completed inside the parent's superstep; the nested final
\* snapshot has value = 20 and subgraph_result = "Preprocessed (step 2): 20"
\* for every parent state; final_node does not start before the nested run
\* has completed.
C18_SubgraphRunsToCompletion ==
    /\ []C18_Nested
    /\ [][C18_ReturnsWhenCompleted]_vars
    /\ (prog = "09" /\ nested.status = "Running") ~> (nested.status = "Completed")

C18_Witness ==
    /\ prog = "09"
    /\ nested.status = "Completed"
    /\ nested.snapshot = [value |-> 20, subgraph_result |-> NestedResult_09]
    /\ "subgraph_node" \in Started(DefaultThread) \ Finished(DefaultThread)
    /\ snapshot[DefaultThread].input_data = <<"a", "B">>

\* ---- C19
\* C19: a run of the production graph (20) ends with status = "completed"
\* exactly when user_input is non-empty, and with status = "failed" exactly
\* when user_input is empty.
C19_FinalStatus ==
    prog = "20" =>
        \A t \in Threads(prog) :
            /\ status[t] # "Failed"
            /\ status[t] = "Completed" =>
                  /\ snapshot[t].status \in {S("completed"), S("failed")}
                  /\ snapshot[t].status = S("completed")
                        <=> initial[t].user_input # << >>
                  /\ snapshot[t].status = S("failed")
                        <=> initial[t].user_input = << >>
                  /\ snapshot[t].user_input = initial[t].user_input

C19_Witness ==
    /\ prog = "20"
    /\ status["REQ-001"] = "Completed"
    /\ initial["REQ-001"].user_input = << >>
    /\ snapshot["REQ-001"].status = S("failed")
    /\ snapshot["REQ-001"].errors = <<S("Input is empty")>>

\* ---- C20
NodesRun(t) == [i \in 1..Len(trace[t]) |-> trace[t][i].node]

Responded_11 ==
    /\ prog = "11"
    /\ LET t == DefaultThread
           run == NodesRun(t)
       IN /\ status[t] = "Completed"
          /\ run # << >>
          /\ run[Len(run)] = "respond"
          /\ \A i \in 1..(Len(run) - 1) : run[i] # "respond"
          /\ snapshot[t].final_answer # << >>

\* C20: for every max_iterations >= 0 and initial iteration_count = 0, every
\* run of the think -> act loop of 11 reaches respond and then the terminal
\* marker: the loop cannot run forever.
C20_LoopTerminates ==
    /\ (prog = "11") ~> Responded_11
    /\ [](prog = "11" => status[DefaultThread] # "Failed")

C20_Witness ==
    /\ prog = "11"
    /\ Responded_11
    /\ initial[DefaultThread].max_iterations = 0
    /\ NodesRun(DefaultThread) = <<"think", "act", "respond">>

\* ---- C21
PositionIn(x, xs) == CHOOSE i \in 1..Len(xs) : xs[i] = x

\* C21: the orchestration run of 16 from the tutorial's initial state
\* (resources = {}) ends with orchestration_status = "completed" and
\* completed_tasks containing task_a, task_b and task_c, task_b recorded
\* after task_a.
C21_AllTasksCompleted ==
    (/\ prog = "16"
     /\ initial[DefaultThread].resources = << >>
     /\ status[DefaultThread] = "Completed")
       => LET done == snapshot[DefaultThread].completed_tasks IN
          /\ snapshot[DefaultThread].orchestration_status = S("completed")
          /\ InList(S("task_a"), done)
          /\ InList(S("task_b"), done)
          /\ InList(S("task_c"), done)
          /\ PositionIn(S("task_a"), done) < PositionIn(S("task_b"), done)

\* ---- C22
\* C22: the run of the parallel pattern of 14 (node_a, then node_b and node_c
\* in one superstep) reaches Completed, and the final results list contains
\* the entries of node_a, node_b and node_c.
C22_ParallelCompletes ==
    (prog = "14par") ~>
        (/\ prog = "14par"
         /\ status[DefaultThread] = "Completed"
         /\ LET d == initial[DefaultThread].input_data
                results == snapshot[DefaultThread].results
            IN /\ InList(S("NodeA: ") \o d, results)
               /\ InList(S("NodeB: ") \o d, results)
               /\ InList(S("NodeC: ") \o d, results))

\* ---- C23
\* the step counter of 07 (step_number) and of 17 (current_step)
StepCounter(s) == IF prog = "07" THEN s.step_number ELSE s.current_step

\* C23: the first invoke for a thread in 07 and 17 executes step_one only:
\* it returns a state with step counter 1 and completed = False, and step_two
\* and step_three execute only during the later invoke(None) that resumes
\* from the checkpoint (that is, only after the run has been stopped once).
C23_FirstInvokeRunsStepOneOnly ==
    prog \in {"07", "17"} =>
        \A t \in {x \in Threads(prog) : Resumes(prog, x)} :
            /\ \A i \in 1..Len(trace[t]) :
                  trace[t][i].node \in {"step_two", "step_three"}
                     => suspendedAt[t] # {}
            /\ (\/ status[t] = "Completed" /\ suspendedAt[t] = {}
                \/ status[t] = "Suspended" /\ suspendedAt[t] = {step[t]}) =>
                  /\ StepCounter(snapshot[t]) = 1
                  /\ snapshot[t].completed = FALSE

\* ---- C24
\* C24: in the 12 graph, from the tutorial's initial state (retry_count = 0,
\* max_retries = 3, error = None), the graph routes back from retry_handler to
\* robust_operation until unreliable_operation succeeds: the run ends with
\* success = True, error = None and result = "Successfully processed: ...",
\* and fallback_handler never executes.
C24_RetriesUntilSuccess ==
    (/\ prog = "12"
     /\ initial[DefaultThread].retry_count = 0
     /\ initial[DefaultThread].max_retries = 3
     /\ initial[DefaultThread].error = None)
       => LET t == DefaultThread IN
          /\ \A i \in 1..Len(trace[t]) : trace[t][i].node # "fallback_handler"
          /\ status[t] = "Completed" =>
                /\ snapshot[t].success = TRUE
                /\ snapshot[t].error = None
                /\ snapshot[t].result
                     = S("Successfully processed: ") \o initial[t].input_data

\* ---- C25
\* C25: in the 06 graph, from the tutorial's initial state (retry_count = 0,
\* max_retries = 3, error = None), after the first failure error_handler
\* prepares a retry, safe_operation executes a second time with
\* retry_count = 1 and succeeds: the run ends with success = True and
\* result = "Successfully processed: ...".
C25_RetrySucceeds ==
    (/\ prog = "06"
     /\ initial[DefaultThread].retry_count = 0
     /\ initial[DefaultThread].max_retries = 3
     /\ initial[DefaultThread].error = None
     /\ status[DefaultThread] = "Completed")
       => LET t == DefaultThread IN
          /\ snapshot[t].success = TRUE
          /\ snapshot[t].result
               = S("Successfully processed: ") \o initial[t].input_data
          /\ \E i \in 1..Len(trace[t]) :
                /\ trace[t][i].node = "safe_operation"
                /\ trace[t][i].step = 2
                /\ SnapshotBefore(t, 2).retry_count = 1

\* ---- C26
Keys(d) == {d[i][1] : i \in 1..Len(d)}

RanAt(t, n) == {trace[t][i].step : i \in {j \in 1..Len(trace[t]) : trace[t][j].node = n}}

\* C26: in the 18 graph, for input longer than 10 characters,
\* branch_b_processor and branch_c_processor run in the same superstep after
\* branch_a_processor, merge_all_strategy runs once and only after both have
\* finished, and the run completes with branch_results holding the keys
\* branch_a, branch_b and branch_c.
C26_BranchesThenMerge ==
    (prog = "18" /\ Len(initial[DefaultThread].input_data) > 10)
       ~> (/\ prog = "18"
           /\ status[DefaultThread] = "Completed"
           /\ RanAt(DefaultThread, "branch_a_processor") = {0}
           /\ RanAt(DefaultThread, "branch_b_processor") = {1}
           /\ RanAt(DefaultThread, "branch_c_processor") = {1}
           /\ RanAt(DefaultThread, "merge_all_strategy") = {2}
           /\ Keys(snapshot[DefaultThread].branch_results)
                = {"branch_a", "branch_b", "branch_c"})

\* ---- C27
\* C27: in the 18 graph, for input of at most 10 characters, only
\* branch_a_processor executes and the run then completes at the terminal
\* marker, with branch_results holding only the key branch_a.
C27_ShortInputCompletes ==
    (prog = "18" /\ Len(initial[DefaultThread].input_data) <= 10)
       ~> (/\ prog = "18"
           /\ status[DefaultThread] = "Completed"
           /\ NodesRun(DefaultThread) = <<"branch_a_processor">>
           /\ Keys(snapshot[DefaultThread].branch_results) = {"branch_a"})

C29_NeverApproved ==
    prog = "05" =>
        /\ status["demo-thread-1"] \notin {"Completed", "Failed"}
        /\ snapshot["demo-thread-1"] # << >> => ~snapshot["demo-thread-1"].approved

\* ---- C30
\* C30: with the append (add_messages) reducer on the messages channel, the
\* final messages list holds each logged message exactly once, in execution
\* order: 3 entries after the run of 15 (State initialized, Executed
\* Processing step 1, Validation passed) and 3 entries after a successful run
\* of 20.
C30_EachMessageOnce ==
    /\ (prog = "15" /\ status[DefaultThread] = "Completed") =>
          snapshot[DefaultThread].messages
             = <<S("State initialized"), S("Executed Processing step 1"),
                 S("Validation passed")>>
    /\ (/\ prog = "20"
        /\ status["REQ-001"] = "Completed"
        /\ snapshot["REQ-001"].status = S("completed")) =>
          snapshot["REQ-001"].messages
             = <<S("Input validated successfully"), S("Processing completed"),
                 S("Workflow completed successfully")>>

\* ---- C31
\* C31: the next frontier is a set: in 04, collect is executed exactly once
\* per run although the three static edges from path_a_processor,
\* path_b_processor and path_c_processor contribute it as target in the same
\* superstep.
C31_CollectOnce ==
    prog = "04" =>
        LET t == DefaultThread IN
        /\ Cardinality({i \in 1..Len(trace[t]) : trace[t][i].node = "collect"}) <= 1
        /\ status[t] = "Completed" =>
              /\ Cardinality(RanAt(t, "collect")) = 1
              /\ \A n \in {"path_a_processor", "path_b_processor", "path_c_processor"} :
                    \E k \in RanAt(t, n) : RanAt(t, "collect") = {k + 1}

C31_Witness ==
    /\ prog = "04"
    /\ status[DefaultThread] = "Completed"
    /\ RanAt(DefaultThread, "path_a_processor") = RanAt(DefaultThread, "path_b_processor")
    /\ RanAt(DefaultThread, "path_b_processor") = RanAt(DefaultThread, "path_c_processor")
    /\ Cardinality({i \in 1..Len(trace[DefaultThread]) :
                        trace[DefaultThread][i].node = "collect"}) = 1

\* ---- C32
RECURSIVE Pow(_, _)
Pow(b, e) == IF e = 0 THEN 1 ELSE b * Pow(b, e - 1)

\* C32: before its k-th retry (k >= 1) with_retry sleeps
\* initial_delay * backoff_multiplier^(k-1); it sleeps neither after the last
\* failed attempt nor after a successful call.
C32_BackoffDelays ==
    /\ \A k \in 1..Len(wrap.slept) :
          wrap.slept[k] * Pow(wrap.multiplier[2], k - 1)
             = wrap.initial_delay * Pow(wrap.multiplier[1], k - 1)
    \* one sleep per retry: between a failed call and the next call
    /\ wrap.pc \in {"calling", "returned", "raised"} /\ wrap.calls >= 1 =>
          Len(wrap.slept) = wrap.calls - 1
    /\ wrap.pc = "sleeping" =>
          /\ Len(wrap.slept) = wrap.calls - 1
          /\ wrap.attempt < wrap.max_retries
          /\ wrap.outcomes[Len(wrap.outcomes)] # "return"
    /\ wrap.pc \in {"returned", "raised"} /\ wrap.calls >= 1 =>
          Len(wrap.slept) = Len(wrap.outcomes) - 1

C32_Witness ==
    /\ wrap.pc = "raised"
    /\ wrap.max_retries = 2
    /\ wrap.multiplier = <<2, 1>>
    /\ wrap.initial_delay = 2
    /\ wrap.slept = <<2, 4>>
    /\ Len(wrap.outcomes) = 3

\* ---- C33
\* C33: every run of the 12 graph, for every initial retry_count, max_retries
\* and error kind (timeout or not), terminates with success = True: either
\* robust_operation succeeded or fallback_handler ran; no run reaches the
\* terminal marker with success = False.
C33_EndsWithSuccess ==
    /\ [](prog = "12" =>
            /\ status[DefaultThread] # "Failed"
            /\ status[DefaultThread] = "Completed" =>
                  /\ snapshot[DefaultThread].success = TRUE
                  /\ \/ "fallback_handler" \in TraceNodes(DefaultThread)
                     \/ snapshot[DefaultThread].error = None)
    /\ (prog = "12" /\ status[DefaultThread] = "Running")
          ~> (prog = "12" /\ status[DefaultThread] = "Completed")

C33_Witness ==
    /\ prog = "12"
    /\ status[DefaultThread] = "Completed"
    /\ snapshot[DefaultThread].success = TRUE
    /\ "fallback_handler" \in TraceNodes(DefaultThread)
    /\ snapshot[DefaultThread].error # None
    /\ HasTimeout(snapshot[DefaultThread].error[1])
    /\ initial[DefaultThread].retry_count >= 2

\* ---- C34
TimesRun(t, n) == Cardinality({i \in 1..Len(trace[t]) : trace[t][i].node = n})

\* C34: in the 11 graph with initial iteration_count = 0 and
\* max_iterations >= 1, iteration_count <= max_iterations holds at every
\* superstep boundary, i.e. think executes at most max_iterations times, and
\* respond executes exactly once.
C34_IterationsBounded ==
    (/\ prog = "11"
     /\ initial[DefaultThread].iteration_count = 0
     /\ initial[DefaultThread].max_iterations >= 1)
       => LET t == DefaultThread IN
          /\ AtBoundary(t) =>
                /\ snapshot[t].iteration_count <= snapshot[t].max_iterations
                /\ snapshot[t].iteration_count = TimesRun(t, "think")
          /\ TimesRun(t, "think") <= initial[t].max_iterations
          /\ TimesRun(t, "respond") <= 1
          /\ status[t] = "Completed" => TimesRun(t, "respond") = 1

C34_Witness ==
    /\ prog = "11"
    /\ initial[DefaultThread].max_iterations = 1
    /\ status[DefaultThread] = "Completed"
    /\ snapshot[DefaultThread].iteration_count = 1
    /\ TimesRun(DefaultThread, "think") = 1
    /\ TimesRun(DefaultThread, "respond") = 1

\* ---- C35
\* C35: in every run of the production graph (20) exactly one of output_node
\* and error_handler executes; when user_input is empty, processing_node and
\* output_node never execute, and when it is non-empty, error_handler never
\* executes.
C35_OneEnding ==
    prog = "20" =>
        LET t == "REQ-001" IN
        /\ TimesRun(t, "output_node") + TimesRun(t, "error_handler") <= 1
        /\ status[t] = "Completed" =>
              TimesRun(t, "output_node") + TimesRun(t, "error_handler") = 1
        /\ initial[t].user_input = << >> =>
              TraceNodes(t) \cap {"processing_node", "output_node"} = {}
        /\ initial[t].user_input # << >> => "error_handler" \notin TraceNodes(t)
        /\ status[t] # "Failed"

C35_Witness ==
    /\ prog = "20"
    /\ status["REQ-001"] = "Completed"
    /\ initial["REQ-001"].user_input # << >>
    /\ TimesRun("REQ-001", "processing_node") = 1
    /\ TimesRun("REQ-001", "output_node") = 1
    /\ TimesRun("REQ-001", "error_handler") = 0

\* ---- C36
\* C36: in the hybrid graph of 14, for every initial results list,
\* route_after_b returns node_c after node_a and node_b have run, so node_d
\* is never executed in any run.
C36_NodeDNeverRuns ==
    prog = "14hyb" =>
        LET t == DefaultThread IN
        /\ "node_d" \notin TraceNodes(t) \cup Started(t) \cup frontier[t]
        /\ ({"node_a", "node_b"} \subseteq TraceNodes(t) /\ AtBoundary(t)) =>
              route_after_b_14(snapshot[t]) = {"node_c"}
        /\ status[t] = "Completed" => NodesRun(t) = <<"node_a", "node_b", "node_c">>
        /\ status[t] # "Failed"

C36_Witness ==
    /\ prog = "14hyb"
    /\ initial[DefaultThread].results = << >>
    /\ status[DefaultThread] = "Completed"
    /\ NodesRun(DefaultThread) = <<"node_a", "node_b", "node_c">>
    /\ Len(snapshot[DefaultThread].results) = 3

C38_GatherInCallOrder ==
    gather.pc = "returned" =>
        /\ {gather.done[k][1] : k \in 1..Len(gather.done)} = 1..3
        /\ Len(gather.done) = 3
        /\ gather.call.ret.async_results
             = gather.state.async_results
                 \o <<<<"Concurrent-1", ": API call completed in ", "0.4", "s">>,
                      <<"Database query '", "SELECT * FROM orders",
                        "' completed in ", "0.3", "s">>,
                      <<"File operation '", "output.txt", "' completed in ",
                        "0.2", "s">>>>
        /\ gather.call.ret.completed_tasks
             = Get(gather.state, "completed_tasks", 0) + 3

C38_Witness ==
    /\ gather.pc = "returned"
    /\ <<gather.done[1][1], gather.done[2][1], gather.done[3][1]>> = <<3, 2, 1>>
    /\ Len(gather.state.async_results) = 3
    /\ "completed_tasks" \in DOMAIN gather.state
    /\ gather.state.completed_tasks = 1
    /\ gather.call.ret.completed_tasks = 4

\* ---- C39
\* the final snapshot of the run of 16 from s0 in which dependency_resolver
\* iterates the set of remaining tasks in the order ord
FinalUnder_16(s0, ord) ==
    LET resolved ==
            Apply("16", s0,
                  <<[node |-> "dependency_resolver",
                     update |-> dependency_resolver_16(s0, ord).ret,
                     error |-> "none"]>>)
    IN RunFrom("16", resolved, {"resource_manager"}, 12)

\* C39: the final snapshot of the orchestration run of 16 does not depend on
\* the order in which dependency_resolver iterates the set of remaining
\* tasks: execution_order and completed_tasks are the same in every run from
\* the same initial state.
C39_OrderIndependent ==
    (prog = "16" /\ status[DefaultThread] = "Completed") =>
        \A ord \in IterationOrders_16 :
            LET final == FinalUnder_16(initial[DefaultThread], ord) IN
            /\ snapshot[DefaultThread].execution_order = final.execution_order
            /\ snapshot[DefaultThread].completed_tasks = final.completed_tasks

====
